---------------------------- MODULE Spec2Model ----------------------------
(***************************************************************************)
(* DockSync: the task execution engine (task_runner.py), the notification  *)
(* wrapper (notifier.py) and the parts of the configuration they consume.  *)
(*                                                                         *)
(* Texts are modelled as sequences of runs [k, i, c, n]: n characters of   *)
(* kind k (a step label, command output, a separator, ...), i the step     *)
(* number and c the command for a label.  Dictionaries are functions whose *)
(* DOMAIN is the set of keys present.                                      *)
(***************************************************************************)
EXTENDS Integers, Sequences, FiniteSets, TLC

\* --- bounds of the model -------------------------------------------------
MaxSteps == 2
MaxRetry == 2
LongOut == 1200

\* --- program constants ---------------------------------------------------
DefaultRetryCount == 3
BackoffSeconds == 2
SuccessCap == 500
FailureCap == 1000
TimeoutMsgLen == 40

VARIABLES glob, tr, fr, calls, now, sent, transport, sched, app

vars == <<glob, tr, fr, calls, now, sent, transport, sched, app>>

\* --- texts ---------------------------------------------------------------
Run(k, i, c, n) == [k |-> k, i |-> i, c |-> c, n |-> n]

Txt(k, n) == IF n = 0 THEN <<>> ELSE <<Run(k, 0, "", n)>>

RECURSIVE TLen(_)
TLen(t) == IF t = <<>> THEN 0 ELSE Head(t).n + TLen(Tail(t))

\* t[:m]
RECURSIVE Slice(_, _)
Slice(t, m) ==
    IF t = <<>> \/ m = 0 THEN <<>>
    ELSE IF Head(t).n <= m
         THEN <<Head(t)>> \o Slice(Tail(t), m - Head(t).n)
         ELSE <<[Head(t) EXCEPT !.n = m]>>

\* "\n\n".join(parts)
RECURSIVE Join(_)
Join(parts) ==
    IF parts = <<>> THEN <<>>
    ELSE IF Len(parts) = 1 THEN Head(parts)
    ELSE Head(parts) \o Txt("sep", 2) \o Join(Tail(parts))

\* --- dictionaries --------------------------------------------------------
Get(d, key, default) == IF key \in DOMAIN d THEN d[key] ELSE default

NoKeys == [x \in {} |-> x]

Opt(key, values) == {NoKeys} \cup {key :> v : v \in values}


None == [None |-> TRUE]

\* --- notifier.py ---------------------------------------------------------
\* Notifier.__init__: every url is kept in self.urls, only the non-empty
\* ones are added to the Apprise object.
\* The entries of a url list that "if url:" skips: the empty string and
\* None (written "null" here).
FalsyUrls == {"", "null"}

Notifier(id, urls) ==
    [id |-> id,
     urls |-> urls,
     servers |-> SelectSeq(urls, LAMBDA u : u \notin FalsyUrls)]

NotifyTypes == {"info", "success", "warning", "failure"}

\* A changed send: an error of apobj.notify is not caught.
send_NoCatch(self, title, body, notify_type, delivery) ==
    IF Len(self.urls) = 0
    THEN [ret |-> TRUE, raised |-> FALSE, notify |-> <<>>]
    ELSE [ret |-> (delivery = "ok"), raised |-> (delivery = "raise"),
          notify |-> <<[notifier |-> self.id, servers |-> self.servers,
                        title |-> title, body |-> body, notify_type |-> notify_type,
                        outcome |-> delivery]>>]

\* A changed send: a severity the map does not know is passed on as it is.
send_UnknownKept(self, title, body, notify_type, delivery) ==
    IF Len(self.urls) = 0
    THEN [ret |-> TRUE, raised |-> FALSE, notify |-> <<>>]
    ELSE [ret |-> (delivery = "ok"), raised |-> FALSE,
          notify |-> <<[notifier |-> self.id, servers |-> self.servers,
                        title |-> title, body |-> body, notify_type |-> notify_type,
                        outcome |-> delivery]>>]

\* A changed send: the early return of an empty url list is missing.
send_NoUrlsCheck(self, title, body, notify_type, delivery) ==
    [ret |-> (delivery = "ok"), raised |-> FALSE,
     notify |-> <<[notifier |-> self.id, servers |-> self.servers,
                   title |-> title, body |-> body, notify_type |-> notify_type,
                   outcome |-> delivery]>>]

\* A changed send: the answer of apobj.notify is dropped.
send_AlwaysTrue(self, title, body, notify_type, delivery) ==
    IF Len(self.urls) = 0
    THEN [ret |-> TRUE, raised |-> FALSE, notify |-> <<>>]
    ELSE [ret |-> TRUE, raised |-> FALSE,
          notify |-> <<[notifier |-> self.id, servers |-> self.servers,
                        title |-> title, body |-> body, notify_type |-> notify_type,
                        outcome |-> delivery]>>]

\* Notifier.send; delivery is what apobj.notify does when it is called:
\* "ok" (returns True), "fail" (returns False) or "raise".
send(self, title, body, notify_type, delivery) ==
    IF Len(self.urls) = 0
    THEN [ret |-> TRUE, raised |-> FALSE, notify |-> <<>>]
    ELSE LET atype == IF notify_type \in NotifyTypes THEN notify_type ELSE "info"
             call == [notifier |-> self.id, servers |-> self.servers,
                      title |-> title, body |-> body, notify_type |-> atype,
                      outcome |-> delivery]
         IN  [ret |-> (delivery = "ok"), raised |-> FALSE, notify |-> <<call>>]

\* A changed send_task_success: the output is cut like a failure's.
send_task_success_FailureCap(self, task_name, duration, output, include_output, delivery) ==
    LET title == [kind |-> "complete", task |-> task_name]
        with  == include_output /\ output # <<>>
        body  == [ok |-> TRUE, task |-> task_name, duration |-> duration,
                  section |-> IF with THEN "Output" ELSE "",
                  text |-> IF with THEN Slice(output, FailureCap) ELSE <<>>]
    IN  [call |-> [title |-> title, body |-> body, notify_type |-> "success"],
         result |-> send(self, title, body, "success", delivery)]

\* Notifier.send_task_success: the send call it makes and send's outcome.
send_task_success(self, task_name, duration, output, include_output, delivery) ==
    LET title == [kind |-> "complete", task |-> task_name]
        with  == include_output /\ output # <<>>
        body  == [ok |-> TRUE, task |-> task_name, duration |-> duration,
                  section |-> IF with THEN "Output" ELSE "",
                  text |-> IF with THEN Slice(output, SuccessCap) ELSE <<>>]
    IN  [call |-> [title |-> title, body |-> body, notify_type |-> "success"],
         result |-> send(self, title, body, "success", delivery)]

\* Notifier.send_task_failure
send_task_failure(self, task_name, error, duration, include_output, delivery) ==
    LET title == [kind |-> "failed", task |-> task_name]
        body  == [ok |-> FALSE, task |-> task_name, duration |-> duration,
                  section |-> IF include_output THEN "Error" ELSE "",
                  text |-> IF include_output THEN Slice(error, FailureCap) ELSE <<>>]
    IN  [call |-> [title |-> title, body |-> body, notify_type |-> "failure"],
         result |-> send(self, title, body, "failure", delivery)]

\* --- task_runner.py ------------------------------------------------------
\* A changed __init__: the task's own url list is ignored.
TaskRunner_AlwaysGlobal(id, task_config, global_notifier, global_notification_config) ==
    LET gnc == IF global_notification_config = None
               THEN [notify_on |-> "all", include_output |-> "all"]
               ELSE global_notification_config
    IN  [config |-> task_config,
         name |-> task_config.name,
         steps |-> task_config.steps,
         on_failure |-> Get(task_config, "on_failure", "stop"),
         retry_count |-> Get(task_config, "retry_count", DefaultRetryCount),
         notify_on |-> Get(task_config, "notify_on", Get(gnc, "notify_on", "all")),
         include_output |-> Get(task_config, "include_output",
                                Get(gnc, "include_output", "all")),
         notifier |-> global_notifier]

\* A changed __init__: include_output follows the task's own value only
\* when the task sets notify_on too.
TaskRunner_Coupled(id, task_config, global_notifier, global_notification_config) ==
    LET gnc == IF global_notification_config = None
               THEN [notify_on |-> "all", include_output |-> "all"]
               ELSE global_notification_config
        task_apprise_urls == Get(task_config, "apprise", <<>>)
    IN  [config |-> task_config,
         name |-> task_config.name,
         steps |-> task_config.steps,
         on_failure |-> Get(task_config, "on_failure", "stop"),
         retry_count |-> Get(task_config, "retry_count", DefaultRetryCount),
         notify_on |-> Get(task_config, "notify_on", Get(gnc, "notify_on", "all")),
         include_output |-> IF "notify_on" \in DOMAIN task_config
                            THEN Get(task_config, "include_output",
                                     Get(gnc, "include_output", "all"))
                            ELSE Get(gnc, "include_output", "all"),
         notifier |-> IF task_apprise_urls # <<>>
                      THEN Notifier(id, task_apprise_urls)
                      ELSE global_notifier]

\* TaskRunner.__init__
TaskRunner(id, task_config, global_notifier, global_notification_config) ==
    LET gnc == IF global_notification_config = None
               THEN [notify_on |-> "all", include_output |-> "all"]
               ELSE global_notification_config
        task_apprise_urls == Get(task_config, "apprise", <<>>)
    IN  [config |-> task_config,
         name |-> task_config.name,
         steps |-> task_config.steps,
         on_failure |-> Get(task_config, "on_failure", "stop"),
         retry_count |-> Get(task_config, "retry_count", DefaultRetryCount),
         notify_on |-> Get(task_config, "notify_on", Get(gnc, "notify_on", "all")),
         include_output |-> Get(task_config, "include_output",
                                Get(gnc, "include_output", "all")),
         notifier |-> IF task_apprise_urls # <<>>
                      THEN Notifier(id, task_apprise_urls)
                      ELSE global_notifier]

\* What subprocess.run does for one command.
Exit(code, out, err) == [kind |-> "exit", returncode |-> code, stdout |-> out, stderr |-> err]
Timeout == [kind |-> "timeout", returncode |-> 0, stdout |-> 0, stderr |-> 0]
OSError == [kind |-> "error", returncode |-> 0, stdout |-> 0, stderr |-> 0]
\* The call to _execute_command itself raising into the step loop.
Raise == [kind |-> "raise", returncode |-> 0, stdout |-> 0, stderr |-> 0]

\* A changed _execute_command: text on stderr makes the command a failure.
execute_command_StderrFails(proc) ==
    CASE proc.kind = "exit" ->
           [success |-> (proc.returncode = 0 /\ proc.stderr = 0),
            output |-> Txt("stdout", proc.stdout)
                       \o (IF proc.stderr > 0
                           THEN Txt("stderr_marker", 9) \o Txt("stderr", proc.stderr)
                           ELSE <<>>)]
      [] proc.kind = "timeout" ->
           [success |-> FALSE, output |-> Txt("timeout_msg", TimeoutMsgLen)]
      [] OTHER ->
           [success |-> FALSE, output |-> Txt("execution_error", 17) \o Txt("exc", 16)]

\* A changed _execute_command: a timeout is not reported as a failure.
execute_command_TimeoutSucceeds(proc) ==
    CASE proc.kind = "exit" ->
           [success |-> (proc.returncode = 0),
            output |-> Txt("stdout", proc.stdout)
                       \o (IF proc.stderr > 0
                           THEN Txt("stderr_marker", 9) \o Txt("stderr", proc.stderr)
                           ELSE <<>>)]
      [] proc.kind = "timeout" ->
           [success |-> TRUE, output |-> Txt("timeout_msg", TimeoutMsgLen)]
      [] OTHER ->
           [success |-> FALSE, output |-> Txt("execution_error", 17) \o Txt("exc", 16)]

\* TaskRunner._execute_command
execute_command(proc) ==
    CASE proc.kind = "exit" ->
           [success |-> (proc.returncode = 0),
            output |-> Txt("stdout", proc.stdout)
                       \o (IF proc.stderr > 0
                           THEN Txt("stderr_marker", 9) \o Txt("stderr", proc.stderr)
                           ELSE <<>>)]
      [] proc.kind = "timeout" ->
           [success |-> FALSE, output |-> Txt("timeout_msg", TimeoutMsgLen)]
      [] OTHER ->
           [success |-> FALSE, output |-> Txt("execution_error", 17) \o Txt("exc", 16)]

CmdLen(command) == CASE command = "true" -> 4 [] command = "rclone" -> 6 [] OTHER -> 1

Digits(n) == IF n < 10 THEN 1 ELSE 2

\* f"Step {step_idx + 1}: {command}\n"
Label(step_idx, command) ==
    <<Run("label", step_idx + 1, command,
          5 + Digits(step_idx + 1) + 2 + CmdLen(command) + 1)>>

\* Changed early returns: never is not checked; failure returns early on
\* a failed run.
should_send_NeverIgnored(self, success) ==
    ~ (self.notify_on = "failure" /\ success)

should_send_FailureInverted(self, success) ==
    ~ (\/ self.notify_on = "never"
       \/ self.notify_on = "failure" /\ ~success)

\* TaskRunner._send_notification, the two early returns.
should_send(self, success) ==
    ~ (\/ self.notify_on = "never"
       \/ self.notify_on = "failure" /\ success)

\* Changed rules: all includes the output of failed runs only; never
\* still includes the output of failed runs.
should_include_output_AllOnFailure(self, success) ==
    self.include_output \in {"all", "failure"} /\ ~success

should_include_output_NeverOnFailure(self, success) ==
    \/ self.include_output = "all"
    \/ ~success

\* A changed rule: failure includes the output whatever the result.
should_include_output_AnyResult(self, success) ==
    self.include_output \in {"all", "failure"}

\* TaskRunner._send_notification, should_include_output.
should_include_output(self, success) ==
    \/ self.include_output = "all"
    \/ self.include_output = "failure" /\ ~success

\* TaskRunner._send_notification: the notifier calls made (each with the
\* value send answered), the transport calls made and whether an exception
\* leaves the method.
send_notification(self, success, duration, output, delivery) ==
    IF ~should_send(self, success)
    THEN [calls |-> <<>>, notify |-> <<>>, raised |-> FALSE]
    ELSE LET r == IF success
                  THEN send_task_success(self.notifier, self.name, duration, output,
                                         should_include_output(self, success), delivery)
                  ELSE send_task_failure(self.notifier, self.name, output, duration,
                                         should_include_output(self, success), delivery)
         IN  [calls |-> <<[title |-> r.call.title, body |-> r.call.body,
                           notify_type |-> r.call.notify_type, ret |-> r.result.ret]>>,
              notify |-> r.result.notify, raised |-> r.result.raised]

\* --- the step loop of TaskRunner._execute_steps ---------------------------
NoRet == [kind |-> "none", success |-> FALSE, output |-> <<>>]

Return(success, all_output) ==
    [kind |-> "return", success |-> success, output |-> Join(all_output)]

Raised == [kind |-> "raise", success |-> FALSE, output |-> <<>>]

IdleFrame ==
    [pc |-> "idle", step_idx |-> 0, attempt |-> 0, max_attempts |-> 0,
     all_output |-> <<>>, start_time |-> 0, ret |-> NoRet, e |-> <<>>,
     propagated |-> FALSE]

\* A changed rule: the retry count is used whatever the policy.
MaxAttempts_AnyPolicy(self) == self.retry_count

\* max_attempts = self.retry_count if self.on_failure == 'retry' else 1
MaxAttempts(self) == IF self.on_failure = "retry" THEN self.retry_count ELSE 1

\* The for loop from index idx and the while loop from its condition, up
\* to the next blocking call.  ForLoop: the loop is exhausted (return
\* True), step['command'] raises KeyError, or the attempt loop of step idx
\* is entered.  WhileHead: another attempt is due, or the attempt loop is
\* left and the for loop goes on.
RECURSIVE ForLoop(_, _, _), WhileHead(_, _)
ForLoop(self, f, idx) ==
    IF idx >= Len(self.steps)
    THEN [f EXCEPT !.pc = "returned", !.ret = Return(TRUE, f.all_output)]
    ELSE IF "command" \notin DOMAIN self.steps[idx + 1]
    THEN [f EXCEPT !.pc = "except", !.step_idx = idx, !.ret = Raised,
                   !.e = Txt("exc", 9)]
    ELSE WhileHead(self, [f EXCEPT !.step_idx = idx, !.attempt = 0,
                                   !.max_attempts = MaxAttempts(self)])

WhileHead(self, f) ==
    IF f.attempt < f.max_attempts
    THEN [f EXCEPT !.pc = "exec"]
    ELSE ForLoop(self, f, f.step_idx + 1)

\* A changed return: the loop reports success where it gives up.
ReturnFalse_ReportsSuccess(h) ==
    [h EXCEPT !.pc = "returned", !.ret = Return(TRUE, h.all_output)]

\* return False, "\n\n".join(all_output)
ReturnFalse(h) == [h EXCEPT !.pc = "returned", !.ret = Return(FALSE, h.all_output)]

\* Changed rules for a failed attempt: stop goes on with the next step;
\* the next attempt is made without a wait; exhausted retries go on with
\* the next step; a wait is made after the last attempt too.
FailedAttempt_StopGoesOn(self, h) ==
    IF h.attempt < h.max_attempts
    THEN [h EXCEPT !.pc = "sleep"]
    ELSE IF self.on_failure = "retry"
    THEN ReturnFalse(h)
    ELSE ForLoop(self, h, h.step_idx + 1)

FailedAttempt_NoWait(self, h) ==
    IF h.attempt < h.max_attempts
    THEN [h EXCEPT !.pc = "exec"]
    ELSE IF self.on_failure = "continue"
    THEN ForLoop(self, h, h.step_idx + 1)
    ELSE ReturnFalse(h)

FailedAttempt_ExhaustedGoesOn(self, h) ==
    IF h.attempt < h.max_attempts
    THEN [h EXCEPT !.pc = "sleep"]
    ELSE IF self.on_failure = "stop"
    THEN ReturnFalse(h)
    ELSE ForLoop(self, h, h.step_idx + 1)

FailedAttempt_WaitAfterLast(self, h) ==
    IF h.attempt <= h.max_attempts
    THEN [h EXCEPT !.pc = "sleep"]
    ELSE IF self.on_failure = "continue"
    THEN ForLoop(self, h, h.step_idx + 1)
    ELSE ReturnFalse(h)

\* A changed branch: every failed attempt is followed by a wait.
FailedAttempt_AlwaysWaits(self, h) == [h EXCEPT !.pc = "sleep"]

\* The else branch of "if success": the attempt failed.
FailedAttempt(self, h) ==
    IF h.attempt < h.max_attempts
    THEN [h EXCEPT !.pc = "sleep"]
    ELSE IF self.on_failure = "stop"
    THEN ReturnFalse(h)
    ELSE IF self.on_failure = "continue"
    THEN ForLoop(self, h, h.step_idx + 1)
    ELSE ReturnFalse(h)

\* A changed rule: retries count as exhausted one attempt late.
ExceptClause_OffByOne(self, h) ==
    IF \/ self.on_failure = "stop"
       \/ self.on_failure = "retry" /\ h.attempt > h.max_attempts
    THEN ReturnFalse(h)
    ELSE IF self.on_failure = "continue"
    THEN ForLoop(self, h, h.step_idx + 1)
    ELSE IF h.attempt < h.max_attempts
    THEN [h EXCEPT !.pc = "sleep"]
    ELSE ForLoop(self, h, h.step_idx + 1)

\* A changed clause: under retry an error gives the step up at once.
ExceptClause_RetryGivesUp(self, h) ==
    IF self.on_failure \in {"stop", "retry"}
    THEN ReturnFalse(h)
    ELSE ForLoop(self, h, h.step_idx + 1)

\* The except clause of the step loop, after the error entry was appended.
ExceptClause(self, h) ==
    IF \/ self.on_failure = "stop"
       \/ self.on_failure = "retry" /\ h.attempt >= h.max_attempts
    THEN ReturnFalse(h)
    ELSE IF self.on_failure = "continue"
    THEN ForLoop(self, h, h.step_idx + 1)
    ELSE IF h.attempt < h.max_attempts
    THEN [h EXCEPT !.pc = "sleep"]
    ELSE ForLoop(self, h, h.step_idx + 1)

\* A changed body: a success does not leave the attempt loop of the step.
WhileBody_SuccessGoesOnTrying(self, f, proc) ==
    LET command == self.steps[f.step_idx + 1].command
        g == [f EXCEPT !.attempt = f.attempt + 1]
    IN  IF proc.kind = "raise"
        THEN ExceptClause(self,
                 [g EXCEPT !.all_output =
                      Append(@, Label(f.step_idx, command)
                                \o Txt("error_prefix", 7) \o Txt("exc", 16))])
        ELSE LET r == execute_command(proc)
                 h == [g EXCEPT !.all_output =
                          Append(@, Label(f.step_idx, command) \o r.output)]
             IN  IF r.success
                 THEN WhileHead(self, h)
                 ELSE FailedAttempt(self, h)

\* A changed body: an attempt that raised leaves no entry in the output.
WhileBody_NoEntryOnRaise(self, f, proc) ==
    LET command == self.steps[f.step_idx + 1].command
        g == [f EXCEPT !.attempt = f.attempt + 1]
    IN  IF proc.kind = "raise"
        THEN ExceptClause(self, g)
        ELSE LET r == execute_command(proc)
                 h == [g EXCEPT !.all_output =
                          Append(@, Label(f.step_idx, command) \o r.output)]
             IN  IF r.success
                 THEN ForLoop(self, h, f.step_idx + 1)
                 ELSE FailedAttempt(self, h)

\* A changed body: an error of subprocess.run is not caught by the executor
\* and reaches the except clause of the step loop.
WhileBody_ErrorRaises(self, f, proc) ==
    LET command == self.steps[f.step_idx + 1].command
        g == [f EXCEPT !.attempt = f.attempt + 1]
    IN  IF proc.kind \in {"raise", "error"}
        THEN ExceptClause(self,
                 [g EXCEPT !.all_output =
                      Append(@, Label(f.step_idx, command)
                                \o Txt("error_prefix", 7) \o Txt("exc", 16))])
        ELSE LET r == execute_command(proc)
                 h == [g EXCEPT !.all_output =
                          Append(@, Label(f.step_idx, command) \o r.output)]
             IN  IF r.success
                 THEN ForLoop(self, h, f.step_idx + 1)
                 ELSE FailedAttempt(self, h)

\* One pass through the body of the while loop with the command behaving
\* as proc, up to the next blocking call.
WhileBody(self, f, proc) ==
    LET command == self.steps[f.step_idx + 1].command
        g == [f EXCEPT !.attempt = f.attempt + 1]
    IN  IF proc.kind = "raise"
        THEN ExceptClause(self,
                 [g EXCEPT !.all_output =
                      Append(@, Label(f.step_idx, command)
                                \o Txt("error_prefix", 7) \o Txt("exc", 16))])
        ELSE LET r == execute_command(proc)
                 h == [g EXCEPT !.all_output =
                          Append(@, Label(f.step_idx, command) \o r.output)]
             IN  IF r.success
                 THEN ForLoop(self, h, f.step_idx + 1)
                 ELSE FailedAttempt(self, h)

\* --- inputs --------------------------------------------------------------
CommandAt(i) == IF i % 2 = 1 THEN "rclone" ELSE "true"

\* A step list: each step is a dictionary with its command; the last one
\* may lack the 'command' key.
StepLists ==
    UNION {{[i \in 1..n |-> IF i \in bad THEN [cmd |-> CommandAt(i)]
                                         ELSE [command |-> CommandAt(i)]] :
            bad \in {{}, {n}} \cap SUBSET (1..n)} : n \in 0..MaxSteps}

PolicyChoices ==
    {NoKeys}
    \cup {("on_failure" :> p) @@ rc :
            p \in {"stop", "continue"}, rc \in Opt("retry_count", {MaxRetry})}
    \cup {("on_failure" :> "retry") @@ ("retry_count" :> n) : n \in 0..MaxRetry}

When == {"all", "failure", "never"}

TaskConfigs(name, policies, whens, urls) ==
    {[name |-> name, cron |-> "* * * * *", steps |-> s] @@ p @@ no @@ io @@ ap :
        s \in StepLists, p \in policies,
        no \in Opt("notify_on", whens), io \in Opt("include_output", whens),
        ap \in Opt("apprise", urls)}

GlobalNotifications ==
    {None,
     [notify_on |-> "failure", include_output |-> "failure"],
     [notify_on |-> "never", include_output |-> "never"]}

Globals(urls, notifications) ==
    {[apprise |-> u, notification |-> n] : u \in urls, n \in notifications}

\* The configurations a run starts from: every failure policy with the
\* global notification settings, and every notification override of the task
\* (its own settings, its own url list, empty or not) with the default
\* policy, also under a global configuration that sets one setting only.
Inputs(name) ==
    (Globals({<<"discord", "">>}, GlobalNotifications)
     \X TaskConfigs(name, PolicyChoices, {}, {}))
    \cup (Globals({<<>>, <<"discord", "">>},
                  GlobalNotifications \cup {"include_output" :> "never"})
          \X TaskConfigs(name, {NoKeys}, When, {<<>>, <<"tgram">>}))

ProcBehaviours ==
    {Exit(0, 0, 0), Exit(0, LongOut, 0), Exit(1, 0, 5), Timeout, Raise}

\* What apobj.notify can do: it cannot deliver when no server was added.
Deliveries(self) ==
    IF self.notifier.servers = <<>> THEN {"fail", "raise"} ELSE {"ok", "fail", "raise"}

\* --- state ---------------------------------------------------------------
\* The DockSyncScheduler object and its process once start has started the
\* background scheduler: running is set, no signal has come, shutdown has
\* not been called, the process has not exited.
StartedApp ==
    [pc |-> "started", running |-> TRUE, signals |-> 0, shutdown_calls |-> 0,
     exited |-> FALSE, status |-> 0]

\* BackgroundScheduler() with its job store and its pool executor before
\* start: no fire time of the job is due, no instance of it is running, no
\* worker of the pool has work.
IdleScheduler(workers) ==
    [due |-> 0, fired |-> 0, instances |-> 0, skipped |-> 0,
     work |-> [w \in workers |-> [busy |-> FALSE, run_times |-> 0, missed |-> 0, runs |-> 0]]]

InitWith(g, configs) ==
    /\ glob = [apprise |-> g.apprise, notification |-> g.notification,
               global_notifier |-> Notifier(0, g.apprise)]
    /\ tr = [t \in DOMAIN configs |->
               TaskRunner(t, configs[t], Notifier(0, g.apprise), g.notification)]
    /\ fr = [t \in DOMAIN configs |-> IdleFrame]
    /\ calls = [t \in DOMAIN configs |-> <<>>]
    /\ sent = [t \in DOMAIN configs |-> <<>>]
    /\ transport = [t \in DOMAIN configs |-> <<>>]
    /\ now = 0
    /\ sched = IdleScheduler(DOMAIN configs)
    /\ app = StartedApp

Init == \E in \in Inputs("task1") : InitWith(in[1], 1 :> in[2])

\* --- actions -------------------------------------------------------------
\* TaskRunner.run is entered; control reaches the first command.
RunStart(t) ==
    /\ fr[t].pc = "idle"
    /\ fr' = [fr EXCEPT ![t] = ForLoop(tr[t], [IdleFrame EXCEPT !.start_time = now], 0)]
    /\ UNCHANGED <<glob, tr, calls, now, sent, transport, sched, app>>

ExecEvent(f, proc) ==
    [ev |-> "exec", step_idx |-> f.step_idx, attempt |-> f.attempt + 1,
     proc |-> proc,
     success |-> (proc.kind # "raise" /\ execute_command(proc).success)]

SleepEvent(f) ==
    [ev |-> "sleep", step_idx |-> f.step_idx, attempt |-> f.attempt,
     proc |-> Raise, success |-> FALSE]

\* A changed attempt: the list of outputs is one list for all runners.
Attempt_SharedOutput(t) ==
    /\ fr[t].pc = "exec"
    /\ \E proc \in ProcBehaviours, u \in DOMAIN tr :
         /\ fr' = [fr EXCEPT ![t] =
                     WhileBody(tr[t], [fr[t] EXCEPT !.all_output = fr[u].all_output], proc)]
         /\ calls' = [calls EXCEPT ![t] = Append(@, ExecEvent(fr[t], proc))]
    /\ now' = now + 1
    /\ UNCHANGED <<glob, tr, sent, transport, sched, app>>

\* One attempt of the current step: the command runs and the engine reacts.
Attempt(t) ==
    /\ fr[t].pc = "exec"
    /\ \E proc \in ProcBehaviours :
         /\ fr' = [fr EXCEPT ![t] = WhileBody(tr[t], fr[t], proc)]
         /\ calls' = [calls EXCEPT ![t] = Append(@, ExecEvent(fr[t], proc))]
    /\ now' = now + 1
    /\ UNCHANGED <<glob, tr, sent, transport, sched, app>>

\* A changed wait: the clock of the run is restarted after the wait.
Sleep_RestartsClock(t) ==
    /\ fr[t].pc = "sleep"
    /\ fr' = [fr EXCEPT ![t] = [WhileHead(tr[t], fr[t]) EXCEPT
                                   !.start_time = now + BackoffSeconds]]
    /\ calls' = [calls EXCEPT ![t] = Append(@, SleepEvent(fr[t]))]
    /\ now' = now + BackoffSeconds
    /\ UNCHANGED <<glob, tr, sent, transport, sched, app>>

\* time.sleep(2) before the next attempt of the same step.
Sleep(t) ==
    /\ fr[t].pc = "sleep"
    /\ fr' = [fr EXCEPT ![t] = WhileHead(tr[t], fr[t])]
    /\ calls' = [calls EXCEPT ![t] = Append(@, SleepEvent(fr[t]))]
    /\ now' = now + BackoffSeconds
    /\ UNCHANGED <<glob, tr, sent, transport, sched, app>>

\* A changed run: a notification that was not delivered is an error of the run.
Notify_UndeliveredIsError(t) ==
    /\ fr[t].pc = "returned"
    /\ \E delivery \in Deliveries(tr[t]) :
         LET f == fr[t]
             n == send_notification(tr[t], f.ret.success, now - f.start_time,
                                    f.ret.output, delivery)
         IN  /\ sent' = [sent EXCEPT ![t] = @ \o n.calls]
             /\ transport' = [transport EXCEPT ![t] = @ \o n.notify]
             /\ now' = now + Len(n.notify)
             /\ fr' = [fr EXCEPT ![t] =
                         IF n.raised \/ (n.calls # <<>> /\ ~n.calls[1].ret)
                         THEN [f EXCEPT !.pc = "except", !.e = Txt("exc", 16)]
                         ELSE [f EXCEPT !.pc = "done"]]
    /\ UNCHANGED <<glob, tr, calls, sched, app>>

\* run after _execute_steps returned: the notification of the result.
Notify(t) ==
    /\ fr[t].pc = "returned"
    /\ \E delivery \in Deliveries(tr[t]) :
         LET f == fr[t]
             n == send_notification(tr[t], f.ret.success, now - f.start_time,
                                    f.ret.output, delivery)
         IN  /\ sent' = [sent EXCEPT ![t] = @ \o n.calls]
             /\ transport' = [transport EXCEPT ![t] = @ \o n.notify]
             /\ now' = now + Len(n.notify)
             /\ fr' = [fr EXCEPT ![t] =
                         IF n.raised THEN [f EXCEPT !.pc = "except", !.e = Txt("exc", 16)]
                                     ELSE [f EXCEPT !.pc = "done"]]
    /\ UNCHANGED <<glob, tr, calls, sched, app>>

\* A changed except clause of run: the error is reported as a success.
HandleError_ReportsSuccess(t) ==
    /\ fr[t].pc = "except"
    /\ \E delivery \in Deliveries(tr[t]) :
         LET f == fr[t]
             n == send_notification(tr[t], TRUE, now - f.start_time, f.e, delivery)
         IN  /\ sent' = [sent EXCEPT ![t] = @ \o n.calls]
             /\ transport' = [transport EXCEPT ![t] = @ \o n.notify]
             /\ now' = now + Len(n.notify)
             /\ fr' = [fr EXCEPT ![t] = [f EXCEPT !.pc = "done",
                                                  !.propagated = n.raised]]
    /\ UNCHANGED <<glob, tr, calls, sched, app>>

\* The except clause of run: the failure notification of an error.
HandleError(t) ==
    /\ fr[t].pc = "except"
    /\ \E delivery \in Deliveries(tr[t]) :
         LET f == fr[t]
             n == send_notification(tr[t], FALSE, now - f.start_time, f.e, delivery)
         IN  /\ sent' = [sent EXCEPT ![t] = @ \o n.calls]
             /\ transport' = [transport EXCEPT ![t] = @ \o n.notify]
             /\ now' = now + Len(n.notify)
             /\ fr' = [fr EXCEPT ![t] = [f EXCEPT !.pc = "done",
                                                  !.propagated = n.raised]]
    /\ UNCHANGED <<glob, tr, calls, sched, app>>

Next ==
    \/ \E t \in DOMAIN tr : RunStart(t)
    \/ \E t \in DOMAIN tr : Attempt(t)
    \/ \E t \in DOMAIN tr : Sleep(t)
    \/ \E t \in DOMAIN tr : Notify(t)
    \/ \E t \in DOMAIN tr : HandleError(t)

Spec == Init /\ [][Next]_vars

\* --- properties of the step loop -----------------------------------------
IsExec(ev) == ev.ev = "exec"

IsSleep(ev) == ev.ev = "sleep"

ExecsOf(t, i) == SelectSeq(calls[t], LAMBDA ev : IsExec(ev) /\ ev.step_idx = i)

SleepsOf(t, i) == SelectSeq(calls[t], LAMBDA ev : IsSleep(ev) /\ ev.step_idx = i)

\* The step numbers (1-based) of the labeled entries of a text.
LabelsIn(text) == {text[j].i : j \in {j \in 1..Len(text) : text[j].k = "label"}}

StepLoopEnded(t) == fr[t].pc \in {"returned", "except", "done"}

ReturnedFailure(t) ==
    /\ fr[t].pc \in {"returned", "done"}
    /\ fr[t].ret.kind = "return"
    /\ ~fr[t].ret.success

ReturnedSuccess(t) ==
    /\ fr[t].pc \in {"returned", "done"}
    /\ fr[t].ret.kind = "return"
    /\ fr[t].ret.success

WellFormedSteps(t) == \A i \in 1..Len(tr[t].steps) : "command" \in DOMAIN tr[t].steps[i]

\* C1: under on_failure = stop, a failed execution of a step is the last
\* executor invocation of the run, the aggregated output (the list and the
\* returned text) has no entry of a later step, and the step loop has
\* returned failure.
C1_StopHaltsAtFirstFailure ==
    \A t \in DOMAIN tr :
        tr[t].on_failure = "stop" =>
            \A k \in 1..Len(calls[t]) :
                (IsExec(calls[t][k]) /\ ~calls[t][k].success) =>
                    /\ k = Len(calls[t])
                    /\ \A j \in 1..Len(fr[t].all_output) :
                           LabelsIn(fr[t].all_output[j]) \subseteq
                               1..(calls[t][k].step_idx + 1)
                    /\ LabelsIn(fr[t].ret.output) \subseteq 1..(calls[t][k].step_idx + 1)
                    /\ ReturnedFailure(t)

C1_Witness ==
    /\ tr[1].on_failure = "stop"
    /\ Len(tr[1].steps) = 2
    /\ fr[1].pc = "done"
    /\ Len(calls[1]) = 1
    /\ calls[1][1].proc = Exit(1, 0, 5)

\* C2: under on_failure = continue, the k-th executor invocation is the
\* first attempt of step k, there is no backoff wait, and when the steps all
\* have a command the step loop returns success after one invocation per step.
C2_ContinueRunsEveryStepOnce ==
    \A t \in DOMAIN tr :
        tr[t].on_failure = "continue" =>
            /\ \A k \in 1..Len(calls[t]) :
                   /\ IsExec(calls[t][k])
                   /\ calls[t][k].step_idx = k - 1
                   /\ calls[t][k].attempt = 1
            /\ (StepLoopEnded(t) /\ WellFormedSteps(t)) =>
                   /\ Len(calls[t]) = Len(tr[t].steps)
                   /\ ReturnedSuccess(t)

C2_Witness ==
    /\ tr[1].on_failure = "continue"
    /\ tr[1].retry_count = MaxRetry
    /\ Len(tr[1].steps) = 2
    /\ fr[1].pc = "done"
    /\ Len(calls[1]) = 2
    /\ ~calls[1][1].success
    /\ ~calls[1][2].success
    /\ fr[1].ret.success

\* C3: under on_failure = retry with retry_count = N >= 1, a step whose
\* N-th attempt succeeded was executed exactly N times (attempts 1..N-1
\* failed) with exactly N-1 waits, the engine has moved on to the next step,
\* and a run in which every step has a successful execution returns success.
C3_RetrySucceedsOnLastAttempt ==
    \A t \in DOMAIN tr :
        (tr[t].on_failure = "retry" /\ tr[t].retry_count >= 1) =>
            LET N == tr[t].retry_count IN
            /\ \A k \in 1..Len(calls[t]) :
                   LET ev == calls[t][k] IN
                   (IsExec(ev) /\ ev.attempt = N /\ ev.success) =>
                       /\ Len(ExecsOf(t, ev.step_idx)) = N
                       /\ \A a \in 1..(N - 1) :
                              /\ ExecsOf(t, ev.step_idx)[a].attempt = a
                              /\ ~ExecsOf(t, ev.step_idx)[a].success
                       /\ Len(SleepsOf(t, ev.step_idx)) = N - 1
                       /\ IF k < Len(calls[t])
                          THEN /\ IsExec(calls[t][k + 1])
                               /\ calls[t][k + 1].step_idx = ev.step_idx + 1
                               /\ calls[t][k + 1].attempt = 1
                          ELSE \/ StepLoopEnded(t)
                               \/ /\ fr[t].pc = "exec"
                                  /\ fr[t].step_idx = ev.step_idx + 1
                                  /\ fr[t].attempt = 0
            /\ (/\ StepLoopEnded(t)
                /\ \A i \in 0..(Len(tr[t].steps) - 1) :
                       \E k \in 1..Len(calls[t]) :
                           /\ IsExec(calls[t][k])
                           /\ calls[t][k].step_idx = i
                           /\ calls[t][k].success)
               => ReturnedSuccess(t)

C3_Witness ==
    /\ tr[1].on_failure = "retry"
    /\ tr[1].retry_count = 2
    /\ Len(tr[1].steps) = 2
    /\ fr[1].pc = "done"
    /\ Len(calls[1]) = 4
    /\ ~calls[1][1].success
    /\ IsSleep(calls[1][2])
    /\ calls[1][3].success
    /\ calls[1][3].step_idx = 0
    /\ calls[1][4].success
    /\ fr[1].ret.success

\* C4: under on_failure = retry with retry_count = N >= 1, a step whose
\* N-th attempt failed was executed exactly N times with exactly N-1 waits,
\* that attempt is the last event of the run (no wait, no later step), and
\* the step loop has returned failure.
C4_RetryExhaustedFails ==
    \A t \in DOMAIN tr :
        (tr[t].on_failure = "retry" /\ tr[t].retry_count >= 1) =>
            \A k \in 1..Len(calls[t]) :
                LET ev == calls[t][k] IN
                (IsExec(ev) /\ ev.attempt = tr[t].retry_count /\ ~ev.success) =>
                    /\ Len(ExecsOf(t, ev.step_idx)) = tr[t].retry_count
                    /\ Len(SleepsOf(t, ev.step_idx)) = tr[t].retry_count - 1
                    /\ k = Len(calls[t])
                    /\ ReturnedFailure(t)

C4_Witness ==
    /\ tr[1].on_failure = "retry"
    /\ tr[1].retry_count = 2
    /\ Len(tr[1].steps) = 2
    /\ fr[1].pc = "done"
    /\ Len(calls[1]) = 3
    /\ calls[1][3].step_idx = 0
    /\ calls[1][3].proc = Exit(1, 0, 5)

\* The step loop of runner self from frame f on the command behaviours
\* procs, one after the other: the frame reached, the events made and the
\* behaviours not consumed.
RECURSIVE Replay(_, _, _, _)
Replay(self, f, procs, evs) ==
    IF f.pc = "sleep"
    THEN Replay(self, WhileHead(self, f), procs, Append(evs, SleepEvent(f)))
    ELSE IF f.pc = "exec" /\ procs # <<>>
    THEN Replay(self, WhileBody(self, f, Head(procs)), Tail(procs),
                Append(evs, ExecEvent(f, Head(procs))))
    ELSE [f |-> f, calls |-> evs, rest |-> procs]

\* The behaviours of the commands executed so far, in order.
ProcsOf(t) ==
    LET execs == SelectSeq(calls[t], IsExec)
    IN  [k \in 1..Len(execs) |-> execs[k].proc]

\* The runner of the same task with on_failure = stop.
StopTwin(t) ==
    TaskRunner(t, [tr[t].config EXCEPT !.on_failure = "stop"],
               glob.global_notifier, glob.notification)

\* C5: a run under on_failure = retry with retry_count = 1 makes no backoff
\* wait, and the same task with on_failure = stop, given the same command
\* results, makes the same executor invocations and reaches the same
\* aggregated output and the same result.
C5_RetryOnceEqualsStop ==
    \A t \in DOMAIN tr :
        (tr[t].on_failure = "retry" /\ tr[t].retry_count = 1 /\ fr[t].pc # "idle") =>
            LET twin == StopTwin(t)
                r == Replay(twin,
                            ForLoop(twin, [IdleFrame EXCEPT !.start_time = fr[t].start_time], 0),
                            ProcsOf(t), <<>>)
            IN  /\ twin.on_failure = "stop"
                /\ r.rest = <<>>
                /\ r.calls = calls[t]
                /\ \A k \in 1..Len(calls[t]) : IsExec(calls[t][k])
                /\ r.f.all_output = fr[t].all_output
                /\ r.f.ret = fr[t].ret
                /\ r.f.step_idx = fr[t].step_idx
                /\ fr[t].pc # "done" => r.f.pc = fr[t].pc

C5_Witness ==
    /\ tr[1].on_failure = "retry"
    /\ tr[1].retry_count = 1
    /\ Len(tr[1].steps) = 2
    /\ fr[1].pc = "done"
    /\ Len(calls[1]) = 2
    /\ calls[1][1].success
    /\ calls[1][2].proc = Raise

\* C6: every backoff wait comes directly after a failed attempt of a step
\* and directly before the next attempt of that same step, and waits happen
\* under on_failure = retry only.
C6_WaitOnlyBetweenAttemptsOfOneStep ==
    \A t \in DOMAIN tr :
        /\ \A k \in 1..Len(calls[t]) :
               IsSleep(calls[t][k]) =>
                   /\ tr[t].on_failure = "retry"
                   /\ k > 1
                   /\ IsExec(calls[t][k - 1])
                   /\ ~calls[t][k - 1].success
                   /\ calls[t][k - 1].step_idx = calls[t][k].step_idx
                   /\ IF k < Len(calls[t])
                      THEN /\ IsExec(calls[t][k + 1])
                           /\ calls[t][k + 1].step_idx = calls[t][k].step_idx
                           /\ calls[t][k + 1].attempt = calls[t][k - 1].attempt + 1
                      ELSE /\ fr[t].pc = "exec"
                           /\ fr[t].step_idx = calls[t][k].step_idx
                           /\ fr[t].attempt = calls[t][k - 1].attempt
        /\ fr[t].pc = "sleep" =>
               /\ tr[t].on_failure = "retry"
               /\ calls[t] # <<>>
               /\ IsExec(calls[t][Len(calls[t])])
               /\ ~calls[t][Len(calls[t])].success
               /\ calls[t][Len(calls[t])].step_idx = fr[t].step_idx
               /\ fr[t].attempt < fr[t].max_attempts

C6_Witness ==
    /\ tr[1].on_failure = "retry"
    /\ Len(calls[1]) = 4
    /\ calls[1][1].success
    /\ calls[1][2].proc = Raise
    /\ IsSleep(calls[1][3])
    /\ calls[1][4].proc = Timeout
    /\ calls[1][4].step_idx = 1
    /\ fr[1].pc = "done"

\* --- properties of run and of the notification ---------------------------
RunFailed(t) == fr[t].ret.kind = "raise" \/ ~fr[t].ret.success

\* The text run hands to the notifier: the aggregated output, or str(e).
Detail(t) == IF fr[t].ret.kind = "raise" THEN fr[t].e ELSE fr[t].ret.output

\* a is the text of the first TLen(a) characters of b.
RECURSIVE IsPrefixText(_, _)
IsPrefixText(a, b) ==
    \/ a = <<>>
    \/ /\ b # <<>>
       /\ [Head(a) EXCEPT !.n = 0] = [Head(b) EXCEPT !.n = 0]
       /\ \/ Head(a).n = Head(b).n /\ IsPrefixText(Tail(a), Tail(b))
          \/ Head(a).n < Head(b).n /\ Tail(a) = <<>>

Min(a, b) == IF a < b THEN a ELSE b

\* C7: no exception leaves run, whatever the commands and the delivery
\* transport do.
C7_RunNeverRaises ==
    \A t \in DOMAIN tr : ~fr[t].propagated

C7_Witness ==
    /\ fr[1].pc = "done"
    /\ fr[1].ret.kind = "raise"
    /\ Len(transport[1]) = 1
    /\ transport[1][1].outcome = "raise"

\* C8: with notify_on = never, run makes no call to the notifier and none
\* to the delivery transport.
C8_NeverSendsNothing ==
    \A t \in DOMAIN tr :
        tr[t].notify_on = "never" => (sent[t] = <<>> /\ transport[t] = <<>>)

C8_Witness ==
    /\ tr[1].notify_on = "never"
    /\ "notify_on" \in DOMAIN tr[1].config
    /\ tr[1].notifier.servers # <<>>
    /\ fr[1].pc = "done"
    /\ fr[1].ret.kind = "raise"

\* C9: a finished run has sent exactly one notification when notify_on is
\* all, and when notify_on is failure exactly one if its result is failure
\* and none otherwise; nothing is sent before the step loop has ended.
C9_NotifyOnFailureIffFailed ==
    \A t \in DOMAIN tr :
        /\ fr[t].pc \notin {"done"} => sent[t] = <<>>
        /\ fr[t].pc = "done" =>
               /\ Len(sent[t]) <= 1
               /\ tr[t].notify_on = "all" => Len(sent[t]) = 1
               /\ tr[t].notify_on = "failure" => (Len(sent[t]) = 1 <=> RunFailed(t))

C9_Witness ==
    /\ tr[1].notify_on = "failure"
    /\ fr[1].pc = "done"
    /\ fr[1].ret.kind = "return"
    /\ ~fr[1].ret.success
    /\ Len(sent[1]) = 1

\* C10: with include_output = failure, the body of a success notification
\* has no output section and no output text, and the body of a failure
\* notification has the error section with the first min(L, 1000)
\* characters of the run's output of length L.
C10_IncludeOutputOnFailureOnly ==
    \A t \in DOMAIN tr :
        tr[t].include_output = "failure" =>
            \A k \in 1..Len(sent[t]) :
                LET body == sent[t][k].body IN
                IF body.ok
                THEN body.section = "" /\ body.text = <<>>
                ELSE /\ body.section = "Error"
                     /\ TLen(body.text) = Min(TLen(Detail(t)), FailureCap)
                     /\ IsPrefixText(body.text, Detail(t))
                     /\ fr[t].ret.kind = "return" =>
                            /\ Detail(t) = Join(fr[t].all_output)
                            /\ body.text # <<>>

C10_Witness ==
    /\ tr[1].include_output = "failure"
    /\ fr[1].pc = "done"
    /\ fr[1].ret.kind = "return"
    /\ ~fr[1].ret.success
    /\ TLen(fr[1].ret.output) > FailureCap
    /\ Len(sent[1]) = 1
    /\ TLen(sent[1][1].body.text) = FailureCap

\* A changed _validate_task: retry_count is not checked.
validate_task_AnyRetryCount(task) ==
    /\ Len(task.steps) # 0
    /\ \A i \in 1..Len(task.steps) : "command" \in DOMAIN task.steps[i]

\* ConfigLoader._validate_task, the checks of steps and retry_count.
validate_task(task) ==
    /\ Len(task.steps) # 0
    /\ \A i \in 1..Len(task.steps) : "command" \in DOMAIN task.steps[i]
    /\ "retry_count" \in DOMAIN task => task.retry_count >= 1

\* C11: with include_output = all, every notification of a task the loader
\* accepts has its output section (Output for a success, Error for a
\* failure) with the head of the run's text, also when no command printed
\* anything; a failure notification has the section for any task.
C11_IncludeOutputAllAlways ==
    \A t \in DOMAIN tr :
        tr[t].include_output = "all" =>
            \A k \in 1..Len(sent[t]) :
                LET body == sent[t][k].body IN
                /\ ~body.ok => body.section = "Error"
                /\ (body.ok /\ validate_task(tr[t].config)) =>
                       /\ body.section = "Output"
                       /\ body.text # <<>>
                       /\ IsPrefixText(body.text, Join(fr[t].all_output))

C11_Witness ==
    /\ tr[1].include_output = "all"
    /\ validate_task(tr[1].config)
    /\ fr[1].pc = "done"
    /\ Len(calls[1]) = 2
    /\ \A k \in 1..2 : calls[1][k].proc = Exit(0, 0, 0)
    /\ Len(sent[1]) = 1
    /\ sent[1][1].body.section = "Output"

\* C12: with include_output = never, no notification has an output or
\* error section or any text of the output or of the error, whether the run
\* succeeded, failed or ended in an error.
C12_IncludeOutputNeverLeaksNothing ==
    \A t \in DOMAIN tr :
        tr[t].include_output = "never" =>
            \A k \in 1..Len(sent[t]) :
                /\ sent[t][k].body.section = ""
                /\ sent[t][k].body.text = <<>>

C12_Witness ==
    /\ tr[1].include_output = "never"
    /\ fr[1].pc = "done"
    /\ fr[1].ret.kind = "raise"
    /\ Len(calls[1]) = 1
    /\ Len(sent[1]) = 1

Cap(body) == IF body.ok THEN SuccessCap ELSE FailureCap

\* C13: the text in a notification's output section is the first
\* min(L, cap) characters of the text of length L that run handed over, with
\* cap 500 for a success and 1000 for a failure.
C13_OutputCutAtCap ==
    \A t \in DOMAIN tr :
        \A k \in 1..Len(sent[t]) :
            LET body == sent[t][k].body IN
            body.section # "" =>
                /\ TLen(body.text) = Min(TLen(Detail(t)), Cap(body))
                /\ TLen(body.text) <= Cap(body)
                /\ IsPrefixText(body.text, Detail(t))

C13_Witness ==
    /\ fr[1].pc = "done"
    /\ Len(sent[1]) = 1
    /\ sent[1][1].body.ok
    /\ TLen(fr[1].ret.output) > FailureCap
    /\ TLen(sent[1][1].body.text) = SuccessCap

\* C14: a notifier constructed with an empty url list answers every send
\* with True and makes no call to the delivery transport.
C14_NoUrlsSendIsNoOp ==
    \A t \in DOMAIN tr :
        tr[t].notifier.urls = <<>> =>
            /\ transport[t] = <<>>
            /\ \A k \in 1..Len(sent[t]) : sent[t][k].ret

C14_Witness ==
    /\ tr[1].notifier.urls = <<>>
    /\ tr[1].notify_on = "all"
    /\ fr[1].pc = "done"
    /\ Len(sent[1]) = 1
    /\ sent[1][1].ret
    /\ ~sent[1][1].body.ok

\* The step loop of task t run again, by itself, on the command behaviours
\* the run met.
Alone(t) ==
    Replay(tr[t], ForLoop(tr[t], [IdleFrame EXCEPT !.start_time = fr[t].start_time], 0),
           ProcsOf(t), <<>>)

\* C15: when the delivery transport reports failure or raises, send answers
\* False, no exception leaves run, run has returned, and the result, the
\* aggregated output and the error of the step loop are those the commands
\* alone determine.
C15_DeliveryFailureSwallowed ==
    \A t \in DOMAIN tr :
        \A k \in 1..Len(transport[t]) :
            transport[t][k].outcome # "ok" =>
                /\ Len(sent[t]) = Len(transport[t])
                /\ ~sent[t][k].ret
                /\ sent[t][k].body.ok <=> ReturnedSuccess(t)
                /\ fr[t].pc = "done"
                /\ ~fr[t].propagated
                /\ Alone(t).rest = <<>>
                /\ fr[t] = [Alone(t).f EXCEPT !.pc = "done"]

C15_Witness ==
    /\ Len(transport[1]) = 1
    /\ transport[1][1].outcome = "fail"
    /\ tr[1].notifier.servers # <<>>
    /\ ReturnedSuccess(1)
    /\ Len(calls[1]) = 2
    /\ ~sent[1][1].ret

\* C16: a task whose own url list is non-empty has a notifier of its own
\* over exactly those urls, and every transport call of its runs goes to
\* that notifier's servers and none to the global notifier; a task whose own
\* list is empty or absent has the global notifier, and every transport
\* call of its runs goes through it.
C16_TaskUrlsOverrideGlobal ==
    \A t \in DOMAIN tr :
        LET own == Get(tr[t].config, "apprise", <<>>) IN
        /\ own # <<>> =>
              /\ tr[t].notifier.id = t
              /\ tr[t].notifier.urls = own
              /\ \A k \in 1..Len(transport[t]) :
                    /\ transport[t][k].notifier = t
                    /\ transport[t][k].servers = own
        /\ own = <<>> =>
              /\ tr[t].notifier = glob.global_notifier
              /\ \A k \in 1..Len(transport[t]) :
                    /\ transport[t][k].notifier = glob.global_notifier.id
                    /\ transport[t][k].servers = glob.global_notifier.servers

C16_Witness ==
    /\ Get(tr[1].config, "apprise", <<>>) = <<"tgram">>
    /\ glob.global_notifier.servers = <<"discord">>
    /\ Len(transport[1]) = 1
    /\ transport[1][1].servers = <<"tgram">>
    /\ transport[1][1].outcome = "ok"

\* The global notification configuration as ConfigLoader hands it over.
GlobalSetting(key) ==
    IF glob.notification = None THEN "all" ELSE Get(glob.notification, key, "all")

\* C17: notify_on and include_output of a runner are, each by itself, the
\* task's own value when the task sets it, otherwise the value of the global
\* notification configuration, otherwise all; and a finished run has sent a
\* notification, with or without the section of the output, as those two
\* values say.
C17_SettingsResolvedIndependently ==
    \A t \in DOMAIN tr :
        LET no == IF "notify_on" \in DOMAIN tr[t].config
                  THEN tr[t].config.notify_on ELSE GlobalSetting("notify_on")
            io == IF "include_output" \in DOMAIN tr[t].config
                  THEN tr[t].config.include_output ELSE GlobalSetting("include_output")
        IN  /\ tr[t].notify_on = no
            /\ tr[t].include_output = io
            /\ fr[t].pc = "done" =>
                  /\ sent[t] # <<>> <=>
                        (no = "all" \/ (no = "failure" /\ RunFailed(t)))
                  /\ \A k \in 1..Len(sent[t]) :
                        sent[t][k].body.section # "" <=>
                          /\ io = "all" \/ (io = "failure" /\ RunFailed(t))
                          /\ RunFailed(t) \/ Detail(t) # <<>>

C17_Witness ==
    /\ glob.notification = ("include_output" :> "never")
    /\ DOMAIN tr[1].config \cap {"notify_on", "include_output"} = {"notify_on"}
    /\ tr[1].config.notify_on = "failure"
    /\ fr[1].pc = "done"
    /\ Len(sent[1]) = 1
    /\ sent[1][1].body.section = ""

\* --- scheduler.py: the job of a task in the background scheduler ---------
MaxFirings == 3

\* add_job(task_runner.run, ..., max_instances=1, coalesce=True); the
\* changed values allow two instances and keep every missed run time.
max_instances_Two == 1 + 1

max_instances == 1

coalesce_Off == FALSE

coalesce == TRUE

\* The run times of one submission when `due` fire times have passed: the
\* last one only when the job coalesces, all of them otherwise.
RunTimes(due) == IF coalesce THEN Min(due, 1) ELSE due

\* One task as schedule_tasks registers it: a step that is retried once, or
\* a step without its command.
SchedConfigs ==
    {[name |-> "task1", cron |-> "* * * * *", steps |-> <<[command |-> "rclone"]>>,
      on_failure |-> "retry", retry_count |-> 2],
     [name |-> "task1", cron |-> "* * * * *", steps |-> <<[cmd |-> "rclone"]>>]}

\* The workers of the pool are 1 and 2; the job of the task is the bound
\* method run of one TaskRunner, whichever worker calls it.
InitSched ==
    \E c \in SchedConfigs :
        InitWith([apprise |-> <<"discord">>, notification |-> None], 1 :> c @@ 2 :> c)

\* A fire time of the task's cron trigger passes.
CronFire ==
    /\ sched.fired < MaxFirings
    /\ sched' = [sched EXCEPT !.due = @ + 1, !.fired = @ + 1]
    /\ UNCHANGED <<glob, tr, fr, calls, now, sent, transport, app>>

\* The scheduler thread wakes up with fire times due: it submits the job
\* with its run times to the executor, which refuses the submission when
\* max_instances instances of the job are running.
ProcessJobs ==
    /\ sched.due > 0
    /\ IF sched.instances >= max_instances
       THEN sched' = [sched EXCEPT !.due = 0, !.skipped = @ + 1]
       ELSE \E w \in DOMAIN tr :
              /\ ~sched.work[w].busy
              /\ sched' = [sched EXCEPT
                             !.due = 0, !.instances = @ + 1,
                             !.work[w] = [busy |-> TRUE, run_times |-> RunTimes(sched.due),
                                          missed |-> sched.due, runs |-> 0]]
    /\ UNCHANGED <<glob, tr, fr, calls, now, sent, transport, app>>

\* A worker takes the next run time of its submission: it drops a run time
\* that is later than the grace time allows, and calls run otherwise.
RunJob(w) ==
    /\ sched.work[w].busy
    /\ sched.work[w].run_times > 0
    /\ fr[w].pc \in {"idle", "done"}
    /\ \/ /\ sched' = [sched EXCEPT !.work[w].run_times = @ - 1]
          /\ UNCHANGED <<fr, calls, sent, transport>>
       \/ /\ sched' = [sched EXCEPT !.work[w].run_times = @ - 1, !.work[w].runs = @ + 1]
          /\ fr' = [fr EXCEPT ![w] = ForLoop(tr[w], [IdleFrame EXCEPT !.start_time = now], 0)]
          /\ calls' = [calls EXCEPT ![w] = <<>>]
          /\ sent' = [sent EXCEPT ![w] = <<>>]
          /\ transport' = [transport EXCEPT ![w] = <<>>]
    /\ UNCHANGED <<glob, tr, now, app>>

\* The worker is through with its run times: the instance is given back.
JobDone(w) ==
    /\ sched.work[w].busy
    /\ sched.work[w].run_times = 0
    /\ fr[w].pc \in {"idle", "done"}
    /\ sched' = [sched EXCEPT !.instances = @ - 1,
                              !.work[w] = IdleScheduler({w}).work[w]]
    /\ fr' = [fr EXCEPT ![w] = IdleFrame]
    /\ UNCHANGED <<glob, tr, calls, now, sent, transport, app>>

NextSched ==
    \/ CronFire
    \/ ProcessJobs
    \/ \E w \in DOMAIN tr : RunJob(w)
    \/ \E w \in DOMAIN tr : Attempt(w)
    \/ \E w \in DOMAIN tr : Sleep(w)
    \/ \E w \in DOMAIN tr : Notify(w)
    \/ \E w \in DOMAIN tr : HandleError(w)
    \/ \E w \in DOMAIN tr : JobDone(w)

SpecSched == InitSched /\ [][NextSched]_vars

\* run has been entered by worker w and has not returned.
InProgress(w) == fr[w].pc \in {"exec", "sleep", "returned", "except"}

\* C18: at no time are two invocations of run of the same task in progress,
\* and the running instances of the job are at most one, however the cron
\* fire times fall; a fire time that comes during a run is skipped.
C18_NoOverlappingRuns ==
    /\ \A w, u \in DOMAIN tr :
          (w # u /\ tr[w].name = tr[u].name) => ~(InProgress(w) /\ InProgress(u))
    /\ sched.instances = Cardinality({w \in DOMAIN tr : sched.work[w].busy})
    /\ sched.instances <= 1

C18_Witness ==
    /\ sched.fired = 2
    /\ sched.skipped = 1
    /\ sched.due = 0
    /\ InProgress(1)
    /\ fr[1].pc = "sleep"
    /\ ~sched.work[2].busy

ConcConfigs ==
    {[name |-> "task2", cron |-> "*/5 * * * *", steps |-> <<[command |-> "rclone"]>>,
      on_failure |-> "retry", retry_count |-> 2] @@ ap :
        ap \in Opt("apprise", {<<"tgram">>})}
    \cup {[name |-> "task2", cron |-> "*/5 * * * *", steps |-> <<[cmd |-> "rclone"]>>]}

\* task1 goes on after a failed step.
InitConc ==
    \E c \in ConcConfigs :
        InitWith([apprise |-> <<"discord">>, notification |-> None],
                 1 :> [name |-> "task1", cron |-> "* * * * *",
                       steps |-> <<[command |-> "true"]>>,
                       on_failure |-> "continue"]
                 @@ 2 :> c)

SpecConc == InitConc /\ [][Next]_vars

\* A notifier call or a transport call without the duration of the run.
Timeless(call) == [call EXCEPT !.body.duration = 0]

\* The notification of task t run by itself with the result its step loop
\* has by itself, delivered as the transport delivered it.
NotificationAlone(t) ==
    LET f == Alone(t).f
        delivery == IF transport[t] = <<>> THEN "ok" ELSE transport[t][1].outcome
    IN  send_notification(tr[t], f.ret.kind = "return" /\ f.ret.success, 0,
                          IF f.ret.kind = "raise" THEN f.e ELSE f.ret.output, delivery)

\* C20: while two different tasks run at the same time, each task's
\* executor invocations and waits (a wait that is due counts as made), its
\* aggregated output and its result are those of that task run by itself on
\* the same command results, and a
\* finished run has sent the notification of that result, apart from the
\* duration, to its own notifier.
C20_ConcurrentTasksIndependent ==
    \A t \in DOMAIN tr :
        (fr[t].pc # "idle") =>
            /\ Alone(t).rest = <<>>
            /\ Alone(t).calls = IF fr[t].pc = "sleep"
                                THEN Append(calls[t], SleepEvent(fr[t]))
                                ELSE calls[t]
            /\ Alone(t).f.all_output = fr[t].all_output
            /\ Alone(t).f.ret = fr[t].ret
            /\ fr[t].pc = "done" =>
                  /\ Len(sent[t]) = Len(NotificationAlone(t).calls)
                  /\ \A k \in 1..Len(sent[t]) :
                        Timeless(sent[t][k]) = NotificationAlone(t).calls[k]
                  /\ Len(transport[t]) = Len(NotificationAlone(t).notify)
                  /\ \A k \in 1..Len(transport[t]) :
                        Timeless(transport[t][k]) = NotificationAlone(t).notify[k]
            /\ fr[t].pc # "done" => (sent[t] = <<>> /\ transport[t] = <<>>)

C20_Witness ==
    /\ tr[1].name # tr[2].name
    /\ tr[1].notifier = tr[2].notifier
    /\ fr[2].pc = "sleep"
    /\ fr[1].pc = "done"
    /\ fr[1].start_time > fr[2].start_time
    /\ Len(calls[1]) = 1
    /\ ~calls[1][1].success
    /\ ReturnedSuccess(1)
    /\ Len(transport[1]) = 1

\* --- the executor under every outcome of subprocess.run ------------------
\* A timeout of subprocess.run while `children` processes started by the
\* shell are running.
TimeoutWith(children) == ("children" :> children) @@ Timeout

\* Exit codes with and without text on stdout and stderr, a timeout, an
\* error of subprocess.run, and an error of the call of _execute_command.
ExecBehaviours ==
    {Exit(0, 0, 0), Exit(0, 0, 5), Exit(0, 3, 0), Exit(1, 0, 0), Exit(1, 3, 5),
     Exit(2, 3, 0), Timeout, TimeoutWith(1), OSError, Raise}

\* One task under each failure policy, and one whose second step has no
\* command.
ExecConfigs ==
    {[name |-> "task1", cron |-> "* * * * *",
      steps |-> <<[command |-> "rclone"], [command |-> "true"]>>] @@ p :
        p \in {"on_failure" :> "stop", "on_failure" :> "continue"}}
    \cup {[name |-> "task1", cron |-> "* * * * *", steps |-> <<[command |-> "rclone"]>>,
           on_failure |-> "retry", retry_count |-> 2],
          [name |-> "task1", cron |-> "* * * * *",
           steps |-> <<[command |-> "rclone"], [command |-> "true"]>>,
           on_failure |-> "retry", retry_count |-> 2],
          [name |-> "task1", cron |-> "* * * * *",
           steps |-> <<[command |-> "rclone"], [cmd |-> "true"]>>,
           on_failure |-> "continue"]}

InitExec ==
    \E c \in ExecConfigs :
        InitWith([apprise |-> <<"discord">>, notification |-> None], 1 :> c)

\* One attempt of the current step under any outcome of subprocess.run.
Execute(t) ==
    /\ fr[t].pc = "exec"
    /\ \E proc \in ExecBehaviours :
         /\ fr' = [fr EXCEPT ![t] = WhileBody(tr[t], fr[t], proc)]
         /\ calls' = [calls EXCEPT ![t] = Append(@, ExecEvent(fr[t], proc))]
    /\ now' = now + 1
    /\ UNCHANGED <<glob, tr, sent, transport, sched, app>>

NextExec ==
    \/ \E t \in DOMAIN tr : RunStart(t)
    \/ \E t \in DOMAIN tr : Execute(t)
    \/ \E t \in DOMAIN tr : Sleep(t)
    \/ \E t \in DOMAIN tr : Notify(t)
    \/ \E t \in DOMAIN tr : HandleError(t)

SpecExec == InitExec /\ [][NextExec]_vars

\* The frame and the events of task t once a wait that is due is made.
Settled(t) ==
    IF fr[t].pc = "sleep"
    THEN [f |-> WhileHead(tr[t], fr[t]), calls |-> Append(calls[t], SleepEvent(fr[t]))]
    ELSE [f |-> fr[t], calls |-> calls[t]]

\* An event without the behaviour of its command.
Shape(ev) == [ev EXCEPT !.proc = Raise]

\* The place of a frame in the step loop and its result, without the texts.
Control(f) ==
    [pc |-> IF f.pc \in {"returned", "except", "done"} THEN "ended" ELSE f.pc,
     step_idx |-> f.step_idx,
     attempt |-> f.attempt, max_attempts |-> f.max_attempts,
     kind |-> f.ret.kind, success |-> f.ret.success, entries |-> Len(f.all_output)]

\* The step loop of task t on the behaviours its commands had, each
\* replaced by what `as` makes of it.
Twin(t, as(_)) ==
    LET procs == ProcsOf(t) IN
    Replay(tr[t], ForLoop(tr[t], [IdleFrame EXCEPT !.start_time = fr[t].start_time], 0),
           [k \in 1..Len(procs) |-> as(procs[k])], <<>>)

TimeoutAsExitOne(proc) == IF proc.kind = "timeout" THEN Exit(1, 0, 0) ELSE proc

\* C21: an execution that timed out is a failed execution whose entry of
\* the aggregated output is the label of its step and the fixed timeout
\* message, and the run takes the course (waits, next attempts, next steps,
\* result) it takes when those commands exit with code 1 instead.
C21_TimeoutIsCommandFailure ==
    \A t \in DOMAIN tr :
        LET execs == SelectSeq(calls[t], IsExec)
            twin == Twin(t, TimeoutAsExitOne)
        IN  /\ \A k \in 1..Len(execs) :
                  execs[k].proc.kind = "timeout" =>
                      /\ ~execs[k].success
                      /\ fr[t].all_output[k] =
                            Label(execs[k].step_idx,
                                  tr[t].steps[execs[k].step_idx + 1].command)
                            \o Txt("timeout_msg", TimeoutMsgLen)
            /\ fr[t].pc # "idle" =>
                  /\ twin.rest = <<>>
                  /\ [k \in 1..Len(twin.calls) |-> Shape(twin.calls[k])]
                       = [k \in 1..Len(Settled(t).calls) |-> Shape(Settled(t).calls[k])]
                  /\ Control(twin.f) = Control(Settled(t).f)

C21_Witness ==
    /\ tr[1].on_failure = "retry"
    /\ fr[1].pc = "done"
    /\ Len(calls[1]) = 3
    /\ calls[1][1].proc = Timeout
    /\ IsSleep(calls[1][2])
    /\ calls[1][3].proc = Timeout
    /\ ReturnedFailure(1)

\* The processes of a command that run once _execute_command has returned.
\* On a timeout subprocess.run kills the process it spawned, the shell, and
\* waits for it; the processes the shell started get no signal, and the
\* code sets up no session or process group to reach them.
running_after(proc) ==
    [shell |-> 0,
     children |-> IF proc.kind = "timeout" THEN Get(proc, "children", 0) ELSE 0]

\* C22: when a command has timed out, neither the shell nor any process it
\* started runs once the executor has returned.
C22_TimeoutLeavesNoProcess ==
    \A t \in DOMAIN tr :
        \A k \in 1..Len(calls[t]) :
            (IsExec(calls[t][k]) /\ calls[t][k].proc.kind = "timeout") =>
                running_after(calls[t][k].proc) = [shell |-> 0, children |-> 0]

\* C23: an error of subprocess.run is a failed execution whose entry of the
\* aggregated output is the label of its step, the words Execution error
\* and the text of the error; it does not reach the except clause of the
\* step loop, whose entry has the word Error instead.
C23_LaunchErrorIsReturned ==
    \A t \in DOMAIN tr :
        LET execs == SelectSeq(calls[t], IsExec) IN
        \A k \in 1..Len(execs) :
            execs[k].proc.kind = "error" =>
                /\ ~execs[k].success
                /\ execute_command(execs[k].proc) =
                      [success |-> FALSE,
                       output |-> Txt("execution_error", 17) \o Txt("exc", 16)]
                /\ fr[t].all_output[k] =
                      Label(execs[k].step_idx, tr[t].steps[execs[k].step_idx + 1].command)
                      \o Txt("execution_error", 17) \o Txt("exc", 16)

C23_Witness ==
    /\ tr[1].on_failure = "continue"
    /\ WellFormedSteps(1)
    /\ fr[1].pc = "done"
    /\ Len(calls[1]) = 2
    /\ calls[1][1].proc = OSError
    /\ calls[1][2].proc = Exit(0, 3, 0)
    /\ ReturnedSuccess(1)

\* C24: an execution that ended with an exit code is a success exactly when
\* the code is 0, whatever was written to stdout and stderr, and the run
\* goes on after it exactly when the code is 0 or the policy tolerates the
\* failure.
C24_SuccessIffExitCodeZero ==
    \A t \in DOMAIN tr :
        LET execs == SelectSeq(calls[t], IsExec) IN
        \A k \in 1..Len(execs) :
            execs[k].proc.kind = "exit" =>
                /\ execs[k].success <=> execs[k].proc.returncode = 0
                /\ execute_command(execs[k].proc).success <=> execs[k].proc.returncode = 0
                /\ (k < Len(execs) /\ execs[k + 1].step_idx > execs[k].step_idx) =>
                      (execs[k].proc.returncode = 0 \/ tr[t].on_failure = "continue")
                /\ (k < Len(execs) /\ execs[k + 1].step_idx = execs[k].step_idx) =>
                      execs[k].proc.returncode # 0

C24_Witness ==
    /\ tr[1].on_failure = "stop"
    /\ fr[1].pc = "done"
    /\ Len(calls[1]) = 2
    /\ calls[1][1].proc = Exit(0, 0, 5)
    /\ calls[1][1].success
    /\ calls[1][2].proc = Exit(1, 0, 0)
    /\ ~calls[1][2].success
    /\ ReturnedFailure(1)

\* C25: a run whose step loop raised an error sends, when notify_on is not
\* never, one notification, of the failure kind, whose body has the error
\* section with the text of the error when include_output is all or failure
\* and no section when it is never; it sends none when notify_on is never,
\* and none before the error is handled.
C25_EngineErrorReportedAsFailure ==
    \A t \in DOMAIN tr :
        fr[t].ret.kind = "raise" =>
            /\ fr[t].pc = "except" => sent[t] = <<>>
            /\ fr[t].pc = "done" =>
                  /\ Len(sent[t]) = IF tr[t].notify_on = "never" THEN 0 ELSE 1
                  /\ \A k \in 1..Len(sent[t]) :
                        LET call == sent[t][k] IN
                        /\ call.title.kind = "failed"
                        /\ call.notify_type = "failure"
                        /\ ~call.body.ok
                        /\ IF tr[t].include_output = "never"
                           THEN call.body.section = "" /\ call.body.text = <<>>
                           ELSE /\ call.body.section = "Error"
                                /\ call.body.text = fr[t].e
                                /\ fr[t].e # <<>>

C25_Witness ==
    /\ fr[1].ret.kind = "raise"
    /\ fr[1].pc = "done"
    /\ tr[1].include_output = "failure"
    /\ tr[1].notify_on = "failure"
    /\ Len(calls[1]) = 1
    /\ calls[1][1].success
    /\ Len(sent[1]) = 1
    /\ sent[1][1].body.text = fr[1].e

\* --- scheduler.py: the shutdown signal ------------------------------------
\* The scheduler with one pool worker, started.
InitApp ==
    \E c \in SchedConfigs :
        InitWith([apprise |-> <<"discord">>, notification |-> None], 1 :> c)

\* _signal_handler, run by the main thread inside the loop of start:
\* running is cleared, shutdown(wait=False) stops the scheduler without
\* waiting for the pool, and sys.exit(0) raises SystemExit into start.
SignalHandler ==
    /\ app.pc = "started"
    /\ app' = [app EXCEPT !.pc = "system_exit", !.running = FALSE,
                          !.signals = @ + 1, !.shutdown_calls = @ + 1]
    /\ UNCHANGED <<glob, tr, fr, calls, now, sent, transport, sched>>

\* start, except (KeyboardInterrupt, SystemExit): shutdown(wait=False) is
\* called on the scheduler once more. The stopped scheduler refuses the call
\* with an error, which leaves start and main, or tolerates it, and start
\* returns.
StartExcept ==
    /\ app.pc = "system_exit"
    /\ \E refused \in BOOLEAN :
         app' = [app EXCEPT !.pc = "finalizing", !.shutdown_calls = @ + 1,
                            !.status = IF refused THEN 1 ELSE 0]
    /\ UNCHANGED <<glob, tr, fr, calls, now, sent, transport, sched>>

\* The main thread has ended: the interpreter joins the workers of the pool
\* and the process exits.
ProcessExit ==
    /\ app.pc = "finalizing"
    /\ \A w \in DOMAIN tr : ~sched.work[w].busy
    /\ app' = [app EXCEPT !.pc = "exited", !.exited = TRUE]
    /\ UNCHANGED <<glob, tr, fr, calls, now, sent, transport, sched>>

\* The scheduler thread works until shutdown; a worker of the pool works
\* until the process exits.
NextApp ==
    \/ SignalHandler
    \/ StartExcept
    \/ ProcessExit
    \/ app.shutdown_calls = 0 /\ CronFire
    \/ app.shutdown_calls = 0 /\ ProcessJobs
    \/ \E w \in DOMAIN tr : ~app.exited /\ RunJob(w)
    \/ \E w \in DOMAIN tr : ~app.exited /\ Attempt(w)
    \/ \E w \in DOMAIN tr : ~app.exited /\ Sleep(w)
    \/ \E w \in DOMAIN tr : ~app.exited /\ Notify(w)
    \/ \E w \in DOMAIN tr : ~app.exited /\ HandleError(w)
    \/ \E w \in DOMAIN tr : ~app.exited /\ JobDone(w)

SpecApp == InitApp /\ [][NextApp]_vars

\* C26: once a shutdown signal has been handled no invocation of run can
\* begin, and when the main thread has ended the process can exit whether
\* or not a run is in flight.
C26_ShutdownStartsNoRunAndDoesNotWait ==
    /\ (app.signals > 0 /\ ~app.exited) => \A w \in DOMAIN tr : ~ENABLED RunJob(w)
    /\ app.pc = "finalizing" => ENABLED ProcessExit

\* --- notifier.py: send called with any severity ---------------------------
MaxSends == 2

\* The severities send is called with: the four of the map and others.
Severities == NotifyTypes \cup {"error", "SUCCESS", ""}

\* A notifier with no url, one with a url, and ones whose list holds only
\* entries that are skipped at construction.
InitSend ==
    \E u \in {<<>>, <<"discord">>, <<"">>, <<"", "null">>} :
        InitWith([apprise |-> u, notification |-> None],
                 1 :> [name |-> "task1", cron |-> "* * * * *",
                       steps |-> <<[command |-> "true"]>>])

\* Notifier.send(title, body, notify_type) called on the notifier of t.
SendDirect(t) ==
    /\ Len(sent[t]) < MaxSends
    /\ \E severity \in Severities, delivery \in Deliveries(tr[t]) :
         LET title == [kind |-> "direct", task |-> tr[t].name]
             body == [ok |-> TRUE, task |-> tr[t].name, duration |-> 0,
                      section |-> "", text |-> <<>>]
             r == send(tr[t].notifier, title, body, severity, delivery)
         IN  /\ sent' = [sent EXCEPT ![t] =
                           Append(@, [title |-> title, body |-> body,
                                      notify_type |-> severity, ret |-> r.ret])]
             /\ transport' = [transport EXCEPT ![t] = @ \o r.notify]
    /\ UNCHANGED <<glob, tr, fr, calls, now, sched, app>>

NextSend == \E t \in DOMAIN tr : SendDirect(t)

SpecSend == InitSend /\ [][NextSend]_vars

\* C27: every call of send on a notifier with urls makes one transport call
\* whose type is info, success, warning or failure when the severity is that
\* word, and info for every other severity.
C27_SeverityMapping ==
    \A t \in DOMAIN tr :
        tr[t].notifier.urls # <<>> =>
            /\ Len(transport[t]) = Len(sent[t])
            /\ \A k \in 1..Len(sent[t]) :
                  transport[t][k].notify_type =
                      CASE sent[t][k].notify_type = "info" -> "info"
                        [] sent[t][k].notify_type = "success" -> "success"
                        [] sent[t][k].notify_type = "warning" -> "warning"
                        [] sent[t][k].notify_type = "failure" -> "failure"
                        [] OTHER -> "info"

C27_Witness ==
    /\ Len(transport[1]) = 2
    /\ sent[1][1].notify_type = "warning"
    /\ transport[1][1].notify_type = "warning"
    /\ sent[1][2].notify_type = "error"
    /\ transport[1][2].notify_type = "info"

\* --- config_loader.py and scheduler.py: loading the configuration ---------
MaxTasks == 2

\* The cron expressions croniter accepts, among those of the inputs: of
\* five fields, and of six with the seconds.
ValidCrons == {"* * * * *", "*/5 * * * *", "* * * * * *"}

\* A changed _validate_task: the length of the step list is not checked.
task_error_NoStepCount(task) ==
    IF "name" \notin DOMAIN task THEN "'name' is required"
    ELSE IF "cron" \notin DOMAIN task THEN "'cron' is required"
    ELSE IF "steps" \notin DOMAIN task THEN "'steps' is required"
    ELSE IF task.cron \notin ValidCrons THEN "Invalid cron expression"
    ELSE IF \E i \in 1..Len(task.steps) : "command" \notin DOMAIN task.steps[i]
    THEN "'command' is required"
    ELSE IF "notify_on" \in DOMAIN task /\ task.notify_on \notin When
    THEN "'notify_on' must be one of"
    ELSE IF "include_output" \in DOMAIN task /\ task.include_output \notin When
    THEN "'include_output' must be one of"
    ELSE IF "on_failure" \in DOMAIN task
            /\ task.on_failure \notin {"stop", "continue", "retry"}
    THEN "'on_failure' must be one of"
    ELSE IF "retry_count" \in DOMAIN task /\ task.retry_count < 1
    THEN "'retry_count' must be a positive integer"
    ELSE ""

\* ConfigLoader._validate_task: the message of the ValueError it raises,
\* or the empty string when it raises none.
task_error(task) ==
    IF "name" \notin DOMAIN task THEN "'name' is required"
    ELSE IF "cron" \notin DOMAIN task THEN "'cron' is required"
    ELSE IF "steps" \notin DOMAIN task THEN "'steps' is required"
    ELSE IF task.cron \notin ValidCrons THEN "Invalid cron expression"
    ELSE IF Len(task.steps) = 0 THEN "At least one step must be defined"
    ELSE IF \E i \in 1..Len(task.steps) : "command" \notin DOMAIN task.steps[i]
    THEN "'command' is required"
    ELSE IF "notify_on" \in DOMAIN task /\ task.notify_on \notin When
    THEN "'notify_on' must be one of"
    ELSE IF "include_output" \in DOMAIN task /\ task.include_output \notin When
    THEN "'include_output' must be one of"
    ELSE IF "on_failure" \in DOMAIN task
            /\ task.on_failure \notin {"stop", "continue", "retry"}
    THEN "'on_failure' must be one of"
    ELSE IF "retry_count" \in DOMAIN task /\ task.retry_count < 1
    THEN "'retry_count' must be a positive integer"
    ELSE ""

\* ConfigLoader._validate_notification_config
notification_error(notification) ==
    IF "notify_on" \in DOMAIN notification /\ notification.notify_on \notin When
    THEN "notification.notify_on must be one of"
    ELSE IF "include_output" \in DOMAIN notification
            /\ notification.include_output \notin When
    THEN "notification.include_output must be one of"
    ELSE ""

\* ConfigLoader._validate: the message of the first error, or "".
validate(config) ==
    IF "notification" \in DOMAIN config /\ notification_error(config.notification) # ""
    THEN notification_error(config.notification)
    ELSE IF "tasks" \notin DOMAIN config THEN "Configuration must contain 'tasks' key"
    ELSE IF Len(config.tasks) = 0 THEN "At least one task must be defined"
    ELSE IF \E i \in 1..Len(config.tasks) : task_error(config.tasks[i]) # ""
    THEN LET i == CHOOSE i \in 1..Len(config.tasks) :
                     /\ task_error(config.tasks[i]) # ""
                     /\ \A j \in 1..(i - 1) : task_error(config.tasks[j]) = ""
         IN  task_error(config.tasks[i])
    ELSE ""

\* ConfigLoader.get_notification_config
get_notification_config(config) ==
    IF "notification" \in DOMAIN config
    THEN config.notification @@ [notify_on |-> "all", include_output |-> "all"]
    ELSE [notify_on |-> "all", include_output |-> "all"]

\* The cron expressions CronTrigger.from_crontab accepts: those of five
\* fields.
Crontabs == {"* * * * *", "*/5 * * * *"}

GoodTask(name) ==
    [name |-> name, cron |-> "* * * * *", steps |-> <<[command |-> "rclone"]>>]

\* Task entries of a configuration file: a well-formed one under three
\* names, and the same entry with one key missing or one value changed.
RawTasks ==
    {GoodTask(n) : n \in {"", "a", "b"}}
    \cup {[cron |-> "* * * * *", steps |-> <<[command |-> "rclone"]>>],
          [name |-> "a", steps |-> <<[command |-> "rclone"]>>],
          [name |-> "a", cron |-> "* * * * *"]}
    \cup {[GoodTask("a") EXCEPT !.cron = c] : c \in {"bad", "* * * * * *"}}
    \cup {[GoodTask("a") EXCEPT !.steps = st] :
            st \in {<<>>, <<[cmd |-> "rclone"]>>,
                    <<[command |-> "rclone"], [command |-> "true"]>>}}
    \cup {extra @@ GoodTask("b") :
            extra \in {"retry_count" :> 0,
                       [on_failure |-> "retry", retry_count |-> 2],
                       "on_failure" :> "abort",
                       "notify_on" :> "sometimes",
                       [include_output |-> "never", apprise |-> <<"tgram">>]}}

\* What yaml.safe_load gives for the configuration file: nothing, or a
\* dictionary with or without its tasks and its global settings.
RawConfigs ==
    {None, [apprise |-> <<"discord">>]}
    \cup {[tasks |-> ts] : ts \in UNION {[1..n -> RawTasks] : n \in 0..MaxTasks}}
    \cup {[tasks |-> <<GoodTask("a")>>, apprise |-> <<"discord">>, notification |-> n] :
            n \in {"notify_on" :> "failure", "notify_on" :> "sometimes",
                   [notify_on |-> "never", include_output |-> "often"]}}

\* DockSyncScheduler.__init__ with the file at config_path: nothing is
\* loaded, no runner exists, the scheduler has no job.
InitLoad ==
    \E file \in RawConfigs :
        /\ app = [file |-> file, jobs |-> <<>>] @@ [StartedApp EXCEPT !.pc = "new"]
        /\ glob = [apprise |-> <<>>, notification |-> None,
                   global_notifier |-> Notifier(0, <<>>)]
        /\ tr = <<>>
        /\ fr = <<>>
        /\ calls = <<>>
        /\ sent = <<>>
        /\ transport = <<>>
        /\ sched = IdleScheduler({})
        /\ now = 0

\* ConfigLoader.load after the file was read: the message of the error it
\* raises, or "".
load(file) == IF file = None THEN "Config file is empty" ELSE validate(file)

\* DockSyncScheduler.load_config: the configuration is loaded and the
\* global notifier built, or the process exits with status 1.
LoadConfig ==
    /\ app.pc = "new"
    /\ IF load(app.file) # ""
       THEN /\ app' = [app EXCEPT !.pc = "exited", !.exited = TRUE, !.status = 1]
            /\ UNCHANGED glob
       ELSE /\ app' = [app EXCEPT !.pc = "loaded"]
            /\ glob' = [apprise |-> Get(app.file, "apprise", <<>>),
                        notification |-> get_notification_config(app.file),
                        global_notifier |-> Notifier(0, Get(app.file, "apprise", <<>>))]
    /\ UNCHANGED <<tr, fr, calls, now, sent, transport, sched>>

\* The number of runs a started scheduler makes in the loading lifecycle.
MaxRuns == 1

\* The tasks schedule_tasks registers before it stops: all of them, or
\* those before the first whose trigger cannot be built.
Registered(tasks) ==
    IF \E i \in 1..Len(tasks) : tasks[i].cron \notin Crontabs
    THEN (CHOOSE i \in 1..Len(tasks) :
             /\ tasks[i].cron \notin Crontabs
             /\ \A j \in 1..(i - 1) : tasks[j].cron \in Crontabs) - 1
    ELSE Len(tasks)

\* A changed schedule_tasks: a task whose trigger cannot be built is
\* logged and left out, and the next task is taken.
ScheduleTasks_SkipsUnschedulable ==
    /\ app.pc = "loaded"
    /\ LET tasks == SelectSeq(app.file.tasks, LAMBDA task : task.cron \in Crontabs)
           n == Len(tasks)
       IN  /\ app' = [app EXCEPT !.pc = "scheduled",
                                  !.jobs = [i \in 1..n |-> tasks[i].name]]
           /\ tr' = [t \in 1..n |->
                       TaskRunner(t, tasks[t], glob.global_notifier, glob.notification)]
           /\ fr' = [t \in 1..n |-> IdleFrame]
           /\ calls' = [t \in 1..n |-> <<>>]
           /\ sent' = [t \in 1..n |-> <<>>]
           /\ transport' = [t \in 1..n |-> <<>>]
           /\ sched' = IdleScheduler(1..n)
    /\ UNCHANGED <<glob, now>>

\* DockSyncScheduler.schedule_tasks: a runner and a job per task, the job
\* under the task's name, in the order of the file; when the trigger of a
\* task cannot be built the process exits with status 1, the tasks before
\* it registered with the scheduler that was not started.
ScheduleTasks ==
    /\ app.pc = "loaded"
    /\ LET tasks == app.file.tasks
           n == Registered(tasks)
       IN  /\ app' = IF n = Len(tasks)
                     THEN [app EXCEPT !.pc = "scheduled",
                                      !.jobs = [i \in 1..n |-> tasks[i].name]]
                     ELSE [app EXCEPT !.pc = "exited", !.exited = TRUE, !.status = 1,
                                      !.jobs = [i \in 1..n |-> tasks[i].name]]
           /\ tr' = [t \in 1..n |->
                       TaskRunner(t, tasks[t], glob.global_notifier, glob.notification)]
           /\ fr' = [t \in 1..n |-> IdleFrame]
           /\ calls' = [t \in 1..n |-> <<>>]
           /\ sent' = [t \in 1..n |-> <<>>]
           /\ transport' = [t \in 1..n |-> <<>>]
           /\ sched' = IdleScheduler(1..n)
    /\ UNCHANGED <<glob, now>>

\* start, the try block: scheduler.start() adds the pending jobs to the job
\* store, which refuses a job whose id it already holds, and then starts
\* the scheduler thread.  On the refusal the except clause calls
\* shutdown(wait=False) on the scheduler that never ran and the process
\* exits with status 1, by sys.exit(1) or by the error of that call.
StartScheduler ==
    /\ app.pc = "scheduled"
    /\ IF \E i, j \in 1..Len(app.jobs) : i # j /\ app.jobs[i] = app.jobs[j]
       THEN app' = [app EXCEPT !.pc = "exited", !.exited = TRUE, !.status = 1,
                               !.shutdown_calls = @ + 1]
       ELSE app' = [app EXCEPT !.pc = "started"]
    /\ UNCHANGED <<glob, tr, fr, calls, now, sent, transport, sched>>

\* A fire time of job t passes in the started scheduler and a worker of the
\* pool calls the job's function, run of the runner of t.
StartJob(t) ==
    /\ app.pc = "started"
    /\ sched.fired < MaxRuns
    /\ fr[t].pc = "idle"
    /\ sched' = [sched EXCEPT !.fired = @ + 1]
    /\ fr' = [fr EXCEPT ![t] = ForLoop(tr[t], [IdleFrame EXCEPT !.start_time = now], 0)]
    /\ UNCHANGED <<glob, tr, calls, now, sent, transport, app>>

NextLoad ==
    \/ LoadConfig
    \/ ScheduleTasks
    \/ StartScheduler
    \/ \E t \in DOMAIN tr : StartJob(t)
    \/ \E t \in DOMAIN tr : Attempt(t)
    \/ \E t \in DOMAIN tr : Sleep(t)
    \/ \E t \in DOMAIN tr : Notify(t)

SpecLoad == InitLoad /\ [][NextLoad]_vars

\* The configuration was accepted by the loader.
Accepted == app.pc \in {"loaded", "scheduled", "started"}

\* C28: every task of a configuration the loader accepted has a step list
\* with at least one step, and so has every runner built from it.
C28_AcceptedTasksHaveSteps ==
    /\ Accepted =>
          \A i \in 1..Len(app.file.tasks) :
              /\ "steps" \in DOMAIN app.file.tasks[i]
              /\ Len(app.file.tasks[i].steps) >= 1
    /\ \A t \in DOMAIN tr : Len(tr[t].steps) >= 1

C28_Witness ==
    /\ app.pc = "scheduled"
    /\ DOMAIN tr = {1, 2}
    /\ Len(tr[1].steps) = 2
    /\ Len(tr[2].steps) = 1

\* C29: the tasks of a configuration the loader accepted have non-empty
\* names that differ from one another.
C29_AcceptedNamesDistinct ==
    Accepted =>
        LET tasks == app.file.tasks IN
        /\ \A i \in 1..Len(tasks) : tasks[i].name # ""
        /\ \A i, j \in 1..Len(tasks) : i # j => tasks[i].name # tasks[j].name

\* C30: at every point of a run the list of outputs has one entry per
\* executor invocation made so far, in the order of the invocations, and
\* each entry begins with the label of the step of its invocation, the
\* 1-based position and the command; the text the step loop returns is
\* those entries joined.
C30_OneLabeledEntryPerInvocation ==
    \A t \in DOMAIN tr :
        LET execs == SelectSeq(calls[t], IsExec) IN
        /\ Len(fr[t].all_output) = Len(execs)
        /\ \A k \in 1..Len(execs) :
              LET entry == fr[t].all_output[k]
                  step == execs[k].step_idx + 1
              IN  /\ entry # <<>>
                  /\ entry[1].k = "label"
                  /\ entry[1].i = step
                  /\ entry[1].c = tr[t].steps[step].command
                  /\ \A j \in 2..Len(entry) : entry[j].k # "label"
        /\ fr[t].ret.kind = "return" => fr[t].ret.output = Join(fr[t].all_output)
        /\ LabelsIn(Join(fr[t].all_output)) = {execs[k].step_idx + 1 : k \in 1..Len(execs)}

C30_Witness ==
    /\ tr[1].on_failure = "retry"
    /\ tr[1].retry_count = 2
    /\ Len(tr[1].steps) = 2
    /\ fr[1].pc = "done"
    /\ Len(SelectSeq(calls[1], IsExec)) = 2
    /\ calls[1][1].step_idx = 0
    /\ calls[1][1].proc = Raise
    /\ calls[1][3].step_idx = 0
    /\ calls[1][3].proc = Timeout
    /\ Len(fr[1].all_output) = 2

\* C31: the step index of successive executor invocations never decreases;
\* the next invocation is of a later step only after a success or, under
\* continue, a failure, and of the same step only after a failure, as its
\* next attempt; the step the loop is at is never before the step of an
\* invocation made.
C31_StepsInOrderOneAtATime ==
    \A t \in DOMAIN tr :
        LET execs == SelectSeq(calls[t], IsExec) IN
        /\ \A k \in 1..Len(execs) :
              /\ execs[k].step_idx \in 0..(Len(tr[t].steps) - 1)
              /\ execs[k].step_idx <= fr[t].step_idx
        /\ \A k \in 1..(Len(execs) - 1) :
              /\ execs[k].step_idx <= execs[k + 1].step_idx
              /\ execs[k].step_idx < execs[k + 1].step_idx =>
                    /\ execs[k].success \/ tr[t].on_failure = "continue"
                    /\ execs[k + 1].attempt = 1
              /\ execs[k].step_idx = execs[k + 1].step_idx =>
                    /\ ~execs[k].success
                    /\ execs[k + 1].attempt = execs[k].attempt + 1

C31_Witness ==
    /\ tr[1].on_failure = "retry"
    /\ Len(tr[1].steps) = 2
    /\ fr[1].pc = "done"
    /\ Len(calls[1]) = 4
    /\ calls[1][1].step_idx = 0 /\ ~calls[1][1].success
    /\ IsSleep(calls[1][2])
    /\ calls[1][3].step_idx = 0 /\ calls[1][3].success
    /\ calls[1][4].step_idx = 1 /\ calls[1][4].success

\* C32: when the step loop returns, it returns failure exactly when the
\* policy is stop or retry and some invocation failed on the last attempt
\* the policy permits; otherwise it returns success, and then (when at
\* least one attempt is permitted) the last invocation was of the last step.
FailedOnLastAttempt(t) ==
    \E k \in 1..Len(calls[t]) :
        /\ IsExec(calls[t][k])
        /\ ~calls[t][k].success
        /\ calls[t][k].attempt = MaxAttempts(tr[t])

C32_FailureIffFailedOnLastAttempt ==
    \A t \in DOMAIN tr :
        fr[t].ret.kind = "return" =>
            LET execs == SelectSeq(calls[t], IsExec) IN
            /\ ~fr[t].ret.success <=>
                  /\ tr[t].on_failure \in {"stop", "retry"}
                  /\ FailedOnLastAttempt(t)
            /\ fr[t].ret.success /\ MaxAttempts(tr[t]) >= 1 /\ tr[t].steps # <<>> =>
                  /\ execs # <<>>
                  /\ execs[Len(execs)].step_idx = Len(tr[t].steps) - 1

C32_Witness ==
    /\ tr[1].on_failure = "retry"
    /\ tr[1].retry_count = 2
    /\ Len(tr[1].steps) = 2
    /\ ReturnedFailure(1)
    /\ Len(SelectSeq(calls[1], IsExec)) = 3
    /\ calls[1][1].success
    /\ FailedOnLastAttempt(1)

RaiseAsExitOne(proc) == IF proc.kind = "raise" THEN Exit(1, 0, 0) ELSE proc

\* C33: an executor call that raised adds one entry to the aggregated
\* output, the label of its step and the error text, and under each policy
\* the run takes the course (waits, next attempts, next steps, result,
\* number of entries) it takes when those calls return a command failure
\* instead.
C33_RaisedErrorIsCommandFailure ==
    \A t \in DOMAIN tr :
        LET execs == SelectSeq(calls[t], IsExec)
            twin == Twin(t, RaiseAsExitOne)
        IN  /\ Len(fr[t].all_output) = Len(execs)
            /\ \A k \in 1..Len(execs) :
                  execs[k].proc.kind = "raise" =>
                      /\ ~execs[k].success
                      /\ fr[t].all_output[k] =
                            Label(execs[k].step_idx,
                                  tr[t].steps[execs[k].step_idx + 1].command)
                            \o Txt("error_prefix", 7) \o Txt("exc", 16)
            /\ fr[t].pc # "idle" =>
                  /\ twin.rest = <<>>
                  /\ [k \in 1..Len(twin.calls) |-> Shape(twin.calls[k])]
                       = [k \in 1..Len(Settled(t).calls) |-> Shape(Settled(t).calls[k])]
                  /\ Control(twin.f) = Control(Settled(t).f)

C33_Witness ==
    \E t \in DOMAIN tr :
        /\ tr[t].on_failure = "retry"
        /\ fr[t].pc = "done"
        /\ Len(calls[t]) = 3
        /\ calls[t][1].proc = Raise
        /\ IsSleep(calls[t][2])
        /\ calls[t][3].proc = Raise
        /\ ReturnedFailure(t)
        /\ Len(fr[t].all_output) = 2

\* A run is one thread of control: while it has a step to take and every
\* call it makes returns, it takes it.
SpecExecFair == SpecExec /\ WF_vars(NextExec)

C34_WithinBounds ==
    \A t \in DOMAIN tr :
        WellFormedSteps(t) /\ MaxAttempts(tr[t]) >= 1 =>
            /\ Len(SelectSeq(calls[t], IsExec))
                  <= Len(tr[t].steps) * MaxAttempts(tr[t])
            /\ Len(SelectSeq(calls[t], IsSleep))
                  <= Len(tr[t].steps) * (MaxAttempts(tr[t]) - 1)

\* C34: when every executor invocation returns, a run that was entered
\* ends; it makes at most (number of steps) x maxAttempts invocations and
\* at most (number of steps) x (maxAttempts - 1) backoff waits, maxAttempts
\* being retry_count under retry and 1 under stop and continue.
C34_RunTerminatesWithinBounds ==
    /\ []C34_WithinBounds
    /\ (fr[1].pc # "idle") ~> (fr[1].pc = "done")

C34_Witness ==
    /\ tr[1].on_failure = "retry"
    /\ Len(tr[1].steps) = 2
    /\ fr[1].pc = "done"
    /\ ReturnedSuccess(1)
    /\ Len(SelectSeq(calls[1], IsExec)) = 4
    /\ Len(SelectSeq(calls[1], IsSleep)) = 2

\* The time the invocations and the waits of task t have taken.
StepLoopTime(t) ==
    Len(SelectSeq(calls[t], IsExec)) + BackoffSeconds * Len(SelectSeq(calls[t], IsSleep))

\* C35 as stated: the duration a run has reported is the time from its
\* entry to its return.  The duration is taken before the notification
\* that carries it is delivered, and run returns after the delivery.
C35_DurationUntilRunReturns ==
    \A t \in DOMAIN tr :
        fr[t].pc = "done" =>
            \A k \in 1..Len(sent[t]) :
                sent[t][k].body.duration = now - fr[t].start_time

\* C35, amended: the duration a run reports is the time from its entry to
\* the moment the step loop returned or its error was caught; it covers
\* every executor invocation and every backoff wait of the run, and not
\* the delivery of the notification that reports it.
C35_DurationCoversStepLoop ==
    \A t \in DOMAIN tr :
        \A k \in 1..Len(sent[t]) :
            /\ StepLoopEnded(t)
            /\ sent[t][k].body.duration >= StepLoopTime(t)
            /\ sent[t][k].body.duration <= now - fr[t].start_time
            /\ k = 1 => sent[t][k].body.duration = StepLoopTime(t)
            /\ fr[t].pc = "done" /\ Len(sent[t]) = 1 =>
                  sent[t][k].body.duration = now - fr[t].start_time - Len(transport[t])

C35_Witness ==
    /\ tr[1].on_failure = "retry"
    /\ fr[1].pc = "done"
    /\ Len(SelectSeq(calls[1], IsExec)) = 2
    /\ Len(SelectSeq(calls[1], IsSleep)) = 1
    /\ Len(sent[1]) = 1
    /\ sent[1][1].body.duration = 2 + BackoffSeconds
    /\ Len(transport[1]) = 1
    /\ now = 3 + BackoffSeconds

\* C36: a run calls the notifier's send at most once, and the transport at
\* most once; a success notification is sent only when the step loop
\* returned success, a failure notification only when it returned failure
\* or raised, whatever the outcome of the delivery.
C36_AtMostOneNotificationOfTheResult ==
    \A t \in DOMAIN tr :
        /\ Len(sent[t]) <= 1
        /\ Len(transport[t]) <= Len(sent[t])
        /\ \A k \in 1..Len(sent[t]) :
              /\ sent[t][k].notify_type \in {"success", "failure"}
              /\ sent[t][k].notify_type = "success" <=>
                    fr[t].ret.kind = "return" /\ fr[t].ret.success
              /\ sent[t][k].notify_type = "failure" <=>
                    \/ fr[t].ret.kind = "return" /\ ~fr[t].ret.success
                    \/ fr[t].ret.kind = "raise"
              /\ sent[t][k].body.ok = (sent[t][k].notify_type = "success")

C36_Witness ==
    /\ fr[1].pc = "done"
    /\ ReturnedSuccess(1)
    /\ Len(calls[1]) >= 1
    /\ Len(sent[1]) = 1
    /\ sent[1][1].notify_type = "success"
    /\ ~sent[1][1].ret
    /\ Len(transport[1]) = 1
    /\ transport[1][1].outcome = "raise"

\* C37: the transport's notify is called only by a notifier to which at
\* least one endpoint was added at construction.
C37_TransportOnlyWithRegisteredEndpoint ==
    \A t \in DOMAIN tr :
        \A k \in 1..Len(transport[t]) : transport[t][k].servers # <<>>

\* C38: a run of a task the loader accepts reports success (the step loop
\* returns success, or a success notification is sent) only when every
\* step was invoked at least once, whatever the policy and the retry count.
C38_SuccessOnlyAfterEveryStepRan ==
    \A t \in DOMAIN tr :
        /\ validate_task(tr[t].config)
        /\ \/ ReturnedSuccess(t)
           \/ \E k \in 1..Len(sent[t]) : sent[t][k].body.ok
        => \A i \in 0..(Len(tr[t].steps) - 1) : ExecsOf(t, i) # <<>>

C38_Witness ==
    /\ validate_task(tr[1].config)
    /\ tr[1].on_failure = "retry"
    /\ tr[1].retry_count = 1
    /\ Len(tr[1].steps) = 2
    /\ fr[1].pc = "done"
    /\ ReturnedSuccess(1)
    /\ Len(sent[1]) = 1 /\ sent[1][1].body.ok
    /\ Len(ExecsOf(1, 0)) = 1 /\ Len(ExecsOf(1, 1)) = 1

\* C39: in one lifecycle shutdown is called on the background scheduler at
\* most once, and a process that exits after a shutdown signal was handled
\* exits with status 0.
C39_ShutdownRequestedOnce ==
    /\ app.shutdown_calls <= 1
    /\ app.exited /\ app.signals > 0 => app.status = 0

\* The configuration file cannot be loaded, or one of its tasks cannot be
\* scheduled: its trigger cannot be built or its job id is taken.
Unschedulable(file) ==
    \/ load(file) # ""
    \/ \E i \in 1..Len(file.tasks) : file.tasks[i].cron \notin Crontabs
    \/ \E i, j \in 1..Len(file.tasks) : i # j /\ file.tasks[i].name = file.tasks[j].name

\* C40: the scheduler is started, and a task run, only when the
\* configuration was loaded and every task of it registered; when loading
\* fails or a task cannot be scheduled the scheduler is never started, no
\* task is run, and the process exits with status 1.
C40_StartedOnlyWhenAllScheduled ==
    /\ app.pc = "started" =>
          /\ load(app.file) = ""
          /\ Len(app.jobs) = Len(app.file.tasks)
          /\ DOMAIN tr = 1..Len(app.file.tasks)
          /\ \A i \in 1..Len(app.jobs) : app.jobs[i] = app.file.tasks[i].name
    /\ app.pc # "started" =>
          /\ sched.fired = 0
          /\ \A t \in DOMAIN tr : fr[t].pc = "idle" /\ calls[t] = <<>> /\ sent[t] = <<>>
    /\ Unschedulable(app.file) =>
          /\ app.pc # "started"
          /\ app.pc \notin {"new", "loaded", "scheduled"} =>
                app.exited /\ app.status = 1

C40_Witness ==
    /\ app.exited
    /\ app.status = 1
    /\ load(app.file) = ""
    /\ Len(app.file.tasks) = 2
    /\ Len(app.jobs) = 1
    /\ DOMAIN tr = {1}
    /\ fr[1].pc = "idle"

\* A started scheduler runs a task of a configuration with two tasks.
C40_StartedWitness ==
    /\ app.pc = "started"
    /\ Len(app.jobs) = 2
    /\ \E t \in DOMAIN tr : fr[t].pc = "done" /\ Len(sent[t]) = 1

====
